---- MODULE Spec2Model ----
(***************************************************************************)
(* Keithley 2400 driver: the sweep engine (keithley2400/sweep.py) on top   *)
(* of the Source, Measure, Trigger and Config controllers and a transport  *)
(* whose calls may fail; the getters and setters of every controller with  *)
(* their reply parsing; the error-queue drain of Status; and the facade's  *)
(* source_voltage, source_current and close (keithley2400/smu.py).         *)
(*                                                                         *)
(* Electrical levels (start, stop, step, list levels, compliance) are      *)
(* integers counting halves of a unit: 2 is 1.0 V, 1 is 0.5 V.  Delay and  *)
(* NPLC are integers counting tenths.  A command is a record of its head   *)
(* and its rendered arguments; Wire gives the text sent to the transport.  *)
(***************************************************************************)
EXTENDS Integers, Sequences, FiniteSets, TLC

VARIABLES pc, variant, args, num_points, idx, commands, raw, result, error,
          calls, inst, errors

(* The calls made on the controllers outside a sweep, the instrument's     *)
(* error queue and the list read_all_errors builds; a sweep leaves them    *)
(* alone.                                                                  *)
ctl == <<calls, inst, errors>>

vars ==
    <<pc, variant, args, num_points, idx, commands, raw, result, error, ctl>>

(* ---------------------------------------------------------------- bounds *)
MaxLevel == 3
MaxStep == 2
MaxPoints == 3
MaxListLen == 2
MaxReplyLen == 4
MaxCalls == 2
MaxQueue == 2

Levels == 0..MaxLevel
Steps == (0 - MaxStep)..MaxStep
PointCounts == 0..MaxPoints
Compliances == {1}
ReplyVals == {7, 9}

(* Default keyword arguments of every sweep, in tenths: delay 0.1, nplc 1.0 *)
DefaultDelay == 1
DefaultNplc == 10

SeqsUpTo(S, n) == UNION {[1..k -> S] : k \in 0..n}

(* ------------------------------------------------------- command codec *)
Abs(x) == IF x < 0 THEN 0 - x ELSE x

RECURSIVE Pow10(_)
Pow10(k) == IF k = 0 THEN 1 ELSE 10 * Pow10(k - 1)

RECURSIVE NumDigits(_)
NumDigits(m) == IF m < 10 THEN 1 ELSE 1 + NumDigits(m \div 10)

RECURSIVE Pad(_, _)
Pad(n, width) ==
    IF width = 0 THEN "" ELSE Pad(n \div 10, width - 1) \o ToString(n % 10)

(* f"{v:E}" of the float h/2: six mantissa digits, signed two-digit exponent *)
FormatE(h) ==
    LET a == Abs(h)
        m == a * 5
        L == NumDigits(m)
        M == m * Pow10(7 - L)
        e == L - 2
    IN  IF a = 0
        THEN "0.000000E+00"
        ELSE (IF h < 0 THEN "-" ELSE "")
             \o ToString(M \div 1000000) \o "." \o Pad(M % 1000000, 6)
             \o "E" \o (IF e < 0 THEN "-" ELSE "+") \o Pad(Abs(e), 2)

(* f"{x}" of the float t/10: the shortest decimal form, e.g. 0.1 and 1.0 *)
FormatRepr(t) == ToString(t \div 10) \o "." \o ToString(t % 10)

(* f"{n}" of an int *)
FormatInt(n) == IF n < 0 THEN "-" \o ToString(0 - n) ELSE ToString(n)

RECURSIVE Join(_)
Join(strs) ==
    IF strs = <<>> THEN ""
    ELSE IF Len(strs) = 1 THEN strs[1]
    ELSE strs[1] \o "," \o Join(Tail(strs))

(* ------------------------------------------------------------ transport *)
Write(head, a) == [kind |-> "write", head |-> head, args |-> a]
Query(head) == [kind |-> "query", head |-> head, args |-> <<>>]

(* Connection.close: the VISA session is closed; recorded on the trace of  *)
(* transport calls next to the commands.                                   *)
Close == [kind |-> "close", head |-> "close()", args |-> <<>>]

Wire(c) == IF c.args = <<>> THEN c.head ELSE c.head \o " " \o Join(c.args)

Conn_reset == Write("*RST", <<>>)

(* ---------------------------------------------------------- controllers *)
OnOff(enable) == IF enable THEN "ON" ELSE "OFF"

Config_output_on == Write(":OUTP", <<"ON">>)
Config_output_off == Write(":OUTP", <<"OFF">>)
Config_set_data_elements(elements) == Write(":FORM:ELEM", elements)

Source_set_function(func) == Write(":SOUR:FUNC", <<func>>)
Source_set_voltage(level) == Write(":SOUR:VOLT:LEV", <<FormatE(level)>>)
Source_set_current(level) == Write(":SOUR:CURR:LEV", <<FormatE(level)>>)
Source_set_voltage_mode(mode) == Write(":SOUR:VOLT:MODE", <<mode>>)
Source_set_current_mode(mode) == Write(":SOUR:CURR:MODE", <<mode>>)
Source_set_delay(seconds) == Write(":SOUR:DEL", <<FormatRepr(seconds)>>)

Measure_set_function(funcs) ==
    Write(":SENS:FUNC", [i \in DOMAIN funcs |-> "\"" \o funcs[i] \o "\""])
Measure_set_concurrent(enable) == Write(":SENS:FUNC:CONC", <<OnOff(enable)>>)
Measure_set_voltage_compliance(volts) ==
    Write(":SENS:VOLT:PROT", <<FormatE(volts)>>)
Measure_set_current_compliance(amps) ==
    Write(":SENS:CURR:PROT", <<FormatE(amps)>>)
Measure_set_nplc(func, nplc) ==
    Write(":SENS:" \o func \o ":NPLC", <<FormatRepr(nplc)>>)
Measure_read == Query(":READ?")

Trigger_set_trigger_count(count) == Write(":TRIG:COUN", <<FormatInt(count)>>)

(* ------------------------------------------------------- sweep engine *)
Variants ==
    {"voltage_sweep_linear", "current_sweep_linear",
     "voltage_sweep_log", "current_sweep_log",
     "voltage_sweep_list", "current_sweep_list"}

LinearVariants == {"voltage_sweep_linear", "current_sweep_linear"}
LogVariants == {"voltage_sweep_log", "current_sweep_log"}
ListVariants == {"voltage_sweep_list", "current_sweep_list"}
VoltageVariants ==
    {"voltage_sweep_linear", "voltage_sweep_log", "voltage_sweep_list"}
CurrentVariants ==
    {"current_sweep_linear", "current_sweep_log", "current_sweep_list"}

NoArgs ==
    [start |-> 0, stop |-> 0, step |-> 0, points |-> 0, levels |-> <<>>,
     compliance |-> 0, delay |-> DefaultDelay, nplc |-> DefaultNplc]

LinearArgs(start, stop, step, compliance) ==
    [NoArgs EXCEPT !.start = start, !.stop = stop, !.step = step,
                   !.compliance = compliance]
LogArgs(start, stop, points, compliance) ==
    [NoArgs EXCEPT !.start = start, !.stop = stop, !.points = points,
                   !.compliance = compliance]
ListArgs(levels, compliance) ==
    [NoArgs EXCEPT !.levels = levels, !.compliance = compliance]

(* round(): nearest integer of n/d, a tie going to the even neighbour *)
Round(n, d) ==
    LET q == n \div d
        r == n % d
    IN  IF 2 * r < d THEN q
        ELSE IF 2 * r > d THEN q + 1
        ELSE IF q % 2 = 0 THEN q ELSE q + 1

(* Variant of NumPoints: int() applied without round() *)
NumPoints_truncating(start, stop, step) ==
    (Abs(stop - start) \div Abs(step)) + 1

(* int(round(abs(stop - start) / abs(step))) + 1, for step # 0 *)
NumPoints(start, stop, step) == Round(Abs(stop - start), Abs(step)) + 1

(* Variant of VoltageSweepLinearConfig: trigger count written before the   *)
(* sweep bounds                                                            *)
VoltageSweepLinearConfig_count_first(a, n) ==
    << Conn_reset,
       Measure_set_concurrent(FALSE),
       Source_set_function("VOLT"),
       Measure_set_function(<<"CURR:DC">>),
       Measure_set_current_compliance(a.compliance),
       Measure_set_nplc("CURR", a.nplc),
       Trigger_set_trigger_count(n),
       Write(":SOUR:VOLT:START", <<FormatE(a.start)>>),
       Write(":SOUR:VOLT:STOP", <<FormatE(a.stop)>>),
       Write(":SOUR:VOLT:STEP", <<FormatE(a.step)>>),
       Source_set_voltage_mode("SWE"),
       Write(":SOUR:SWE:RANG", <<"AUTO">>),
       Write(":SOUR:SWE:SPAC", <<"LIN">>),
       Source_set_delay(a.delay),
       Config_set_data_elements(<<"VOLT", "CURR">>) >>

(* The commands each variant sends before :OUTP ON, in program order. *)
VoltageSweepLinearConfig(a, n) ==
    << Conn_reset,
       Measure_set_concurrent(FALSE),
       Source_set_function("VOLT"),
       Measure_set_function(<<"CURR:DC">>),
       Measure_set_current_compliance(a.compliance),
       Measure_set_nplc("CURR", a.nplc),
       Write(":SOUR:VOLT:START", <<FormatE(a.start)>>),
       Write(":SOUR:VOLT:STOP", <<FormatE(a.stop)>>),
       Write(":SOUR:VOLT:STEP", <<FormatE(a.step)>>),
       Source_set_voltage_mode("SWE"),
       Write(":SOUR:SWE:RANG", <<"AUTO">>),
       Write(":SOUR:SWE:SPAC", <<"LIN">>),
       Trigger_set_trigger_count(n),
       Source_set_delay(a.delay),
       Config_set_data_elements(<<"VOLT", "CURR">>) >>

CurrentSweepLinearConfig(a, n) ==
    << Conn_reset,
       Measure_set_concurrent(FALSE),
       Source_set_function("CURR"),
       Measure_set_function(<<"VOLT:DC">>),
       Measure_set_voltage_compliance(a.compliance),
       Measure_set_nplc("VOLT", a.nplc),
       Write(":SOUR:CURR:START", <<FormatE(a.start)>>),
       Write(":SOUR:CURR:STOP", <<FormatE(a.stop)>>),
       Write(":SOUR:CURR:STEP", <<FormatE(a.step)>>),
       Source_set_current_mode("SWE"),
       Write(":SOUR:SWE:RANG", <<"AUTO">>),
       Write(":SOUR:SWE:SPAC", <<"LIN">>),
       Trigger_set_trigger_count(n),
       Source_set_delay(a.delay),
       Config_set_data_elements(<<"VOLT", "CURR">>) >>

(* Variant of VoltageSweepLogConfig: a point count below 1 is raised to 1 *)
VoltageSweepLogConfig_clamped(a) ==
    << Conn_reset,
       Measure_set_concurrent(FALSE),
       Source_set_function("VOLT"),
       Measure_set_function(<<"CURR:DC">>),
       Measure_set_current_compliance(a.compliance),
       Measure_set_nplc("CURR", a.nplc),
       Write(":SOUR:VOLT:START", <<FormatE(a.start)>>),
       Write(":SOUR:VOLT:STOP", <<FormatE(a.stop)>>),
       Source_set_voltage_mode("SWE"),
       Write(":SOUR:SWE:RANG", <<"AUTO">>),
       Write(":SOUR:SWE:SPAC", <<"LOG">>),
       Write(":SOUR:SWE:POIN", <<FormatInt(a.points)>>),
       Trigger_set_trigger_count(IF a.points < 1 THEN 1 ELSE a.points),
       Source_set_delay(a.delay),
       Config_set_data_elements(<<"VOLT", "CURR">>) >>

VoltageSweepLogConfig(a) ==
    << Conn_reset,
       Measure_set_concurrent(FALSE),
       Source_set_function("VOLT"),
       Measure_set_function(<<"CURR:DC">>),
       Measure_set_current_compliance(a.compliance),
       Measure_set_nplc("CURR", a.nplc),
       Write(":SOUR:VOLT:START", <<FormatE(a.start)>>),
       Write(":SOUR:VOLT:STOP", <<FormatE(a.stop)>>),
       Source_set_voltage_mode("SWE"),
       Write(":SOUR:SWE:RANG", <<"AUTO">>),
       Write(":SOUR:SWE:SPAC", <<"LOG">>),
       Write(":SOUR:SWE:POIN", <<FormatInt(a.points)>>),
       Trigger_set_trigger_count(a.points),
       Source_set_delay(a.delay),
       Config_set_data_elements(<<"VOLT", "CURR">>) >>

(* Variant of CurrentSweepLogConfig: compliance and NPLC set on the        *)
(* excitation (current) side                                               *)
CurrentSweepLogConfig_current_side(a) ==
    << Conn_reset,
       Measure_set_concurrent(FALSE),
       Source_set_function("CURR"),
       Measure_set_function(<<"VOLT:DC">>),
       Measure_set_current_compliance(a.compliance),
       Measure_set_nplc("CURR", a.nplc),
       Write(":SOUR:CURR:START", <<FormatE(a.start)>>),
       Write(":SOUR:CURR:STOP", <<FormatE(a.stop)>>),
       Source_set_current_mode("SWE"),
       Write(":SOUR:SWE:RANG", <<"AUTO">>),
       Write(":SOUR:SWE:SPAC", <<"LOG">>),
       Write(":SOUR:SWE:POIN", <<FormatInt(a.points)>>),
       Trigger_set_trigger_count(a.points),
       Source_set_delay(a.delay),
       Config_set_data_elements(<<"VOLT", "CURR">>) >>

CurrentSweepLogConfig(a) ==
    << Conn_reset,
       Measure_set_concurrent(FALSE),
       Source_set_function("CURR"),
       Measure_set_function(<<"VOLT:DC">>),
       Measure_set_voltage_compliance(a.compliance),
       Measure_set_nplc("VOLT", a.nplc),
       Write(":SOUR:CURR:START", <<FormatE(a.start)>>),
       Write(":SOUR:CURR:STOP", <<FormatE(a.stop)>>),
       Source_set_current_mode("SWE"),
       Write(":SOUR:SWE:RANG", <<"AUTO">>),
       Write(":SOUR:SWE:SPAC", <<"LOG">>),
       Write(":SOUR:SWE:POIN", <<FormatInt(a.points)>>),
       Trigger_set_trigger_count(a.points),
       Source_set_delay(a.delay),
       Config_set_data_elements(<<"VOLT", "CURR">>) >>

(* Variant of VoltageSweepListConfig: trigger count one short of the list *)
VoltageSweepListConfig_short_count(a) ==
    << Conn_reset,
       Measure_set_concurrent(FALSE),
       Source_set_function("VOLT"),
       Measure_set_function(<<"CURR:DC">>),
       Measure_set_current_compliance(a.compliance),
       Measure_set_nplc("CURR", a.nplc),
       Source_set_voltage_mode("LIST"),
       Write(":SOUR:LIST:VOLT",
             <<Join([i \in DOMAIN a.levels |-> FormatE(a.levels[i])])>>),
       Trigger_set_trigger_count(Len(a.levels) - 1),
       Source_set_delay(a.delay),
       Config_set_data_elements(<<"VOLT", "CURR">>) >>

(* Variant of VoltageSweepListConfig: the levels are sent in ascending order *)
VoltageSweepListConfig_sorted(a) ==
    << Conn_reset,
       Measure_set_concurrent(FALSE),
       Source_set_function("VOLT"),
       Measure_set_function(<<"CURR:DC">>),
       Measure_set_current_compliance(a.compliance),
       Measure_set_nplc("CURR", a.nplc),
       Source_set_voltage_mode("LIST"),
       Write(":SOUR:LIST:VOLT",
             <<Join([i \in DOMAIN a.levels |->
                        FormatE(SortSeq(a.levels, <)[i])])>>),
       Trigger_set_trigger_count(Len(a.levels)),
       Source_set_delay(a.delay),
       Config_set_data_elements(<<"VOLT", "CURR">>) >>

VoltageSweepListConfig(a) ==
    << Conn_reset,
       Measure_set_concurrent(FALSE),
       Source_set_function("VOLT"),
       Measure_set_function(<<"CURR:DC">>),
       Measure_set_current_compliance(a.compliance),
       Measure_set_nplc("CURR", a.nplc),
       Source_set_voltage_mode("LIST"),
       Write(":SOUR:LIST:VOLT",
             <<Join([i \in DOMAIN a.levels |-> FormatE(a.levels[i])])>>),
       Trigger_set_trigger_count(Len(a.levels)),
       Source_set_delay(a.delay),
       Config_set_data_elements(<<"VOLT", "CURR">>) >>

(* Variant of CurrentSweepListConfig: data elements in (excitation, sense)  *)
(* order                                                                   *)
CurrentSweepListConfig_curr_first(a) ==
    << Conn_reset,
       Measure_set_concurrent(FALSE),
       Source_set_function("CURR"),
       Measure_set_function(<<"VOLT:DC">>),
       Measure_set_voltage_compliance(a.compliance),
       Measure_set_nplc("VOLT", a.nplc),
       Source_set_current_mode("LIST"),
       Write(":SOUR:LIST:CURR",
             <<Join([i \in DOMAIN a.levels |-> FormatE(a.levels[i])])>>),
       Trigger_set_trigger_count(Len(a.levels)),
       Source_set_delay(a.delay),
       Config_set_data_elements(<<"CURR", "VOLT">>) >>

CurrentSweepListConfig(a) ==
    << Conn_reset,
       Measure_set_concurrent(FALSE),
       Source_set_function("CURR"),
       Measure_set_function(<<"VOLT:DC">>),
       Measure_set_voltage_compliance(a.compliance),
       Measure_set_nplc("VOLT", a.nplc),
       Source_set_current_mode("LIST"),
       Write(":SOUR:LIST:CURR",
             <<Join([i \in DOMAIN a.levels |-> FormatE(a.levels[i])])>>),
       Trigger_set_trigger_count(Len(a.levels)),
       Source_set_delay(a.delay),
       Config_set_data_elements(<<"VOLT", "CURR">>) >>

(* --------------------------------------------------------------- facade *)
FacadeOps == {"source_voltage", "source_current"}

FacadeArgs(level, compliance, measure) ==
    [level |-> level, compliance |-> compliance, measure |-> measure]

(* Variant of SourceVoltageConfig: no compliance limit is programmed *)
SourceVoltageConfig_no_compliance(a) ==
    << Source_set_function("VOLT"),
       Source_set_voltage_mode("FIX"),
       Source_set_voltage(a.level),
       Measure_set_function(<<a.measure>>) >>

(* Keithley2400.source_voltage up to output_on() *)
SourceVoltageConfig(a) ==
    << Source_set_function("VOLT"),
       Source_set_voltage_mode("FIX"),
       Source_set_voltage(a.level),
       Measure_set_current_compliance(a.compliance),
       Measure_set_function(<<a.measure>>) >>

(* Keithley2400.source_current up to output_on() *)
SourceCurrentConfig(a) ==
    << Source_set_function("CURR"),
       Source_set_current_mode("FIX"),
       Source_set_current(a.level),
       Measure_set_voltage_compliance(a.compliance),
       Measure_set_function(<<a.measure>>) >>

ConfigOf(v, a, n) ==
    CASE v = "voltage_sweep_linear" -> VoltageSweepLinearConfig(a, n)
      [] v = "current_sweep_linear" -> CurrentSweepLinearConfig(a, n)
      [] v = "voltage_sweep_log" -> VoltageSweepLogConfig(a)
      [] v = "current_sweep_log" -> CurrentSweepLogConfig(a)
      [] v = "voltage_sweep_list" -> VoltageSweepListConfig(a)
      [] v = "current_sweep_list" -> CurrentSweepListConfig(a)
      [] v = "source_voltage" -> SourceVoltageConfig(a)
      [] v = "source_current" -> SourceCurrentConfig(a)

(* raw[0::2] and raw[1::2] *)
EvenIndexed(r) == [i \in 1..((Len(r) + 1) \div 2) |-> r[2 * i - 1]]
(* Variant of OddIndexed: the slice starts at index 0 *)
OddIndexed_from_zero(r) == [i \in 1..(Len(r) \div 2) |-> r[2 * i - 1]]
OddIndexed(r) == [i \in 1..(Len(r) \div 2) |-> r[2 * i]]

(* The returned dict, as its items in insertion order. *)
parse_two_element(r, key_a, key_b) ==
    << [key |-> key_a, vals |-> EvenIndexed(r)],
       [key |-> key_b, vals |-> OddIndexed(r)] >>

NoInstrument == [queue |-> <<>>, steady |-> <<>>, next |-> 0]

NoError == [type |-> "none", at |-> 0]

(* --------------------------------------------------------- reply codec *)
(* A reply is the string Connection.query returns, as the sequence of its  *)
(* characters; Text gives the string itself.                               *)
Text(cs) ==
    LET upTo[n \in 0..Len(cs)] == IF n = 0 THEN "" ELSE upTo[n - 1] \o cs[n]
    IN  upTo[Len(cs)]

Digits == {"0", "1", "2", "3", "4", "5", "6", "7", "8", "9"}
DigitVal(c) == CHOOSE n \in 0..9 : ToString(n) = c

(* A digit part of a Python numeric literal: digits, optionally grouped    *)
(* by single underscores between digits.                                   *)
IsDigits(cs) ==
    /\ cs # <<>>
    /\ \A i \in DOMAIN cs : cs[i] \in Digits \cup {"_"}
    /\ cs[1] \in Digits
    /\ cs[Len(cs)] \in Digits
    /\ \A i \in 1..(Len(cs) - 1) : ~(cs[i] = "_" /\ cs[i + 1] = "_")

(* The digits of a digit part, its underscores left out *)
Ungroup(cs) ==
    LET keep == {i \in DOMAIN cs : cs[i] # "_"}
    IN  [k \in 1..Cardinality(keep) |->
            cs[CHOOSE i \in keep : Cardinality({j \in keep : j <= i}) = k]]

DigitsVal(cs) ==
    LET upTo[n \in 0..Len(cs)] ==
            IF n = 0 THEN 0 ELSE 10 * upTo[n - 1] + DigitVal(cs[n])
    IN  upTo[Len(cs)]

(* Index of the first character of cs that is in set, 0 when there is none *)
FirstIndex(cs, set) ==
    IF \E i \in DOMAIN cs : cs[i] \in set
    THEN CHOOSE i \in DOMAIN cs :
            cs[i] \in set /\ \A j \in 1..(i - 1) : cs[j] \notin set
    ELSE 0

Signed(cs) == cs # <<>> /\ cs[1] \in {"+", "-"}
Unsigned(cs) == IF Signed(cs) THEN Tail(cs) ELSE cs
SignOf(cs) == IF cs # <<>> /\ cs[1] = "-" THEN 0 - 1 ELSE 1

LowerChar(c) ==
    CASE c = "I" -> "i" [] c = "N" -> "n" [] c = "F" -> "f" [] c = "A" -> "a"
      [] c = "T" -> "t" [] c = "Y" -> "y" [] OTHER -> c
Lower(cs) == [i \in DOMAIN cs |-> LowerChar(cs[i])]

(* A parsed number: the finite value sig * 10^e, kept exactly, or one of   *)
(* the float specials; ok = FALSE is a ValueError.                         *)
Finite(sig, e) == [ok |-> TRUE, kind |-> "finite", sig |-> sig, e |-> e]
Special(kind, sign) == [ok |-> TRUE, kind |-> kind, sig |-> sign, e |-> 0]
NotANumber == [ok |-> FALSE, kind |-> "error", sig |-> 0, e |-> 0]

(* int(s): an optional sign and decimal digits, anything else a ValueError *)
ParseInt(cs) ==
    IF IsDigits(Unsigned(cs))
    THEN Finite(SignOf(cs) * DigitsVal(Ungroup(Unsigned(cs))), 0)
    ELSE NotANumber

(* float(s): [sign] (digits [. [digits]] | . digits) [E [sign] digits], or *)
(* [sign] inf | infinity | nan in any case; anything else a ValueError.    *)
FloatOr(cs, otherwise) ==
    LET body == Unsigned(cs)
        ePos == FirstIndex(body, {"E", "e"})
        mant == IF ePos = 0 THEN body ELSE SubSeq(body, 1, ePos - 1)
        expo == IF ePos = 0 THEN <<"0">>
                ELSE SubSeq(body, ePos + 1, Len(body))
        dot == FirstIndex(mant, {"."})
        whole == IF dot = 0 THEN mant ELSE SubSeq(mant, 1, dot - 1)
        frac == IF dot = 0 THEN <<>> ELSE SubSeq(mant, dot + 1, Len(mant))
        digits == Ungroup(whole \o frac)
        wellFormed ==
            /\ whole = <<>> \/ IsDigits(whole)
            /\ frac = <<>> \/ IsDigits(frac)
            /\ digits # <<>>
            /\ IsDigits(Unsigned(expo))
    IN  IF Lower(body) \in {<<"i", "n", "f">>,
                            <<"i", "n", "f", "i", "n", "i", "t", "y">>}
        THEN Special("inf", SignOf(cs))
        ELSE IF Lower(body) = <<"n", "a", "n">>
        THEN Special("nan", SignOf(cs))
        ELSE IF wellFormed
        THEN Finite(SignOf(cs) * DigitsVal(digits),
                    SignOf(expo) * DigitsVal(Ungroup(Unsigned(expo)))
                        - Len(Ungroup(frac)))
        ELSE otherwise

(* Variant of ParseFloat: a malformed literal reads as 0.0 *)
ParseFloat_defaulting(cs) == FloatOr(cs, Finite(0, 0))

ParseFloat(cs) == FloatOr(cs, NotANumber)

(* int(x) of a float x = sig * 10^e: truncation toward zero *)
Trunc(v) ==
    IF v.e >= 0 THEN v.sig * Pow10(v.e)
    ELSE (IF v.sig < 0 THEN 0 - 1 ELSE 1) * (Abs(v.sig) \div Pow10(0 - v.e))

(* x > bound for a float x = sig * 10^e and an int bound > 0, decided on   *)
(* the number of digits first so that no power of ten overflows            *)
GreaterThan(v, bound) ==
    LET mag == NumDigits(v.sig) + v.e
        ref == NumDigits(bound)
    IN  /\ v.kind # "nan"
        /\ v.sig > 0
        /\ \/ v.kind = "inf"
           \/ mag > ref
           \/ /\ mag = ref
              /\ IF v.e >= 0 THEN v.sig * Pow10(v.e) > bound
                 ELSE v.sig > bound * Pow10(0 - v.e)

(* s.strip(chars): the characters of set removed from both ends *)
StripSet(cs, set) ==
    LET keep == {i \in DOMAIN cs : cs[i] \notin set}
    IN  IF keep = {} THEN <<>>
        ELSE SubSeq(cs, CHOOSE i \in keep : \A j \in keep : i <= j,
                    CHOOSE i \in keep : \A j \in keep : j <= i)

(* ------------------------------------------------------------ spellings *)
(* The characters of each text that is put on the wire or comes back as a  *)
(* reply in the model.                                                     *)
Spelling ==
    "HIMP" :> <<"H", "I", "M", "P">>
    @@ "NORM" :> <<"N", "O", "R", "M">>
    @@ "ZERO" :> <<"Z", "E", "R", "O">>
    @@ "GUAR" :> <<"G", "U", "A", "R">>
    @@ "FRON" :> <<"F", "R", "O", "N">>
    @@ "REAR" :> <<"R", "E", "A", "R">>
    @@ "ON" :> <<"O", "N">>
    @@ "OFF" :> <<"O", "F", "F">>
    @@ "ONCE" :> <<"O", "N", "C", "E">>
    @@ "OHMS" :> <<"O", "H", "M", "S">>
    @@ "CABL" :> <<"C", "A", "B", "L">>
    @@ "VOLT" :> <<"V", "O", "L", "T">>
    @@ "CURR" :> <<"C", "U", "R", "R">>
    @@ "FIX" :> <<"F", "I", "X">>
    @@ "SWE" :> <<"S", "W", "E">>
    @@ "LIST" :> <<"L", "I", "S", "T">>
    @@ "IMM" :> <<"I", "M", "M">>
    @@ "TLIN" :> <<"T", "L", "I", "N">>
    @@ "TIM" :> <<"T", "I", "M">>
    @@ "MAN" :> <<"M", "A", "N">>
    @@ "BUS" :> <<"B", "U", "S">>
    @@ "NST" :> <<"N", "S", "T">>
    @@ "PST" :> <<"P", "S", "T">>
    @@ "BST" :> <<"B", "S", "T">>
    @@ "SENS" :> <<"S", "E", "N", "S">>
    @@ "CALC" :> <<"C", "A", "L", "C">>
    @@ "CALC2" :> <<"C", "A", "L", "C", "2">>
    @@ "NEXT" :> <<"N", "E", "X", "T">>
    @@ "NEV" :> <<"N", "E", "V">>
    @@ "ABS" :> <<"A", "B", "S">>
    @@ "DELT" :> <<"D", "E", "L", "T">>
    @@ "BOGUS" :> <<"B", "O", "G", "U", "S">>
    @@ "VOLT,CURR" :> <<"V", "O", "L", "T", ",", "C", "U", "R", "R">>
    @@ "TIME" :> <<"T", "I", "M", "E">>
    @@ "\"VOLT\"" :> <<"\"", "V", "O", "L", "T", "\"">>
    @@ "\"CURR:DC\"" :> <<"\"", "C", "U", "R", "R", ":", "D", "C", "\"">>
    @@ "\"VOLT\",\"CURR\"" :>
          <<"\"", "V", "O", "L", "T", "\"", ",", "\"", "C", "U", "R",
          "R", "\"">>
    @@ "1" :> <<"1">>
    @@ "0" :> <<"0">>
    @@ "" :> <<>>
    @@ "1.0" :> <<"1", ".", "0">>
    @@ "100.000000" :> <<"1", "0", "0", ".", "0", "0", "0", "0", "0", "0">>
    @@ "2500" :> <<"2", "5", "0", "0">>
    @@ "2500.5" :> <<"2", "5", "0", "0", ".", "5">>
    @@ "2501" :> <<"2", "5", "0", "1">>
    @@ "-7.9" :> <<"-", "7", ".", "9">>
    @@ "9.9E37" :> <<"9", ".", "9", "E", "3", "7">>
    @@ "1.000000E+00" :>
          <<"1", ".", "0", "0", "0", "0", "0", "0", "E", "+", "0", "0">>
    @@ "NAN" :> <<"N", "A", "N">>
    @@ "inf" :> <<"i", "n", "f">>
    @@ "15,\"overflow\"" :>
          <<"1", "5", ",", "\"", "o", "v", "e", "r", "f", "l", "o",
          "w", "\"">>
    @@ "0,\"No error\"" :>
          <<"0", ",", "\"", "N", "o", " ", "e", "r", "r", "o", "r",
          "\"">>
    @@ "-113,\"Undefined header, near :X\"" :>
          <<"-", "1", "1", "3", ",", "\"", "U", "n", "d", "e", "f",
          "i", "n", "e", "d", " ", "h", "e", "a", "d", "e", "r", ",",
          " ", "n", "e", "a", "r", " ", ":", "X", "\"">>
    @@ "15" :> <<"1", "5">>
    @@ "0.0,\"No error\"" :>
          <<"0", ".", "0", ",", "\"", "N", "o", " ", "e", "r", "r",
          "o", "r", "\"">>

Chars(text) == Spelling[text]

(* Replies the transport may give, as Connection.query returns them       *)
(* (stripped of surrounding whitespace).                                   *)
BoolReplies == {Chars(t) : t \in {"1", "0", "ON", "", "1.0"}}
StrReplies == {Chars(t) : t \in {"VOLT", "\"VOLT\"", ""}}
IntReplies ==
    {Chars(t) : t \in {"1", "100.000000", "2500", "2500.5", "2501", "-7.9",
                       "", "VOLT", "NAN", "inf"}}
FloatReplies ==
    {Chars(t) : t \in {"1.000000E+00", "100.000000", "9.9E37", "-7.9", "",
                       "VOLT", "NAN"}}
(* An arm count reading is a count or the 9.9E37 of INFINITE: no negative  *)
(* reply.                                                                  *)
ArmReplies ==
    {Chars(t) : t \in {"0", "1", "100.000000", "2500", "2500.5", "2501",
                       "9.9E37", "inf", "NAN", "", "VOLT"}}
ErrorReplies ==
    {Chars(t) : t \in {"15,\"overflow\"", "0,\"No error\"",
                       "-113,\"Undefined header, near :X\"", "15",
                       "0.0,\"No error\""}}
ValueReplies == SeqsUpTo(ReplyVals, 1)

(* ------------------------------------------------------------- decoders *)
(* What a call gives its caller: a value, or the exception it raises.      *)
None == [t |-> "none", v |-> 0]
BoolValue(b) == [t |-> "bool", v |-> b]
StrValue(cs) == [t |-> "str", v |-> cs]
IntValue(n) == [t |-> "int", v |-> n]
FloatValue(x) == [t |-> "float", v |-> x]
ListValue(xs) == [t |-> "list", v |-> xs]
ErrorEntry(code, msg) == [t |-> "tuple", v |-> <<code, msg>>]

Returns(v) == [raised |-> "", value |-> v]
Raises(type) == [raised |-> type, value |-> None]

(* Variant of DecodeBool: "ON" also reads as true *)
DecodeBool_accepting_on(reply) ==
    Returns(BoolValue(reply \in {<<"1">>, <<"O", "N">>}))

(* query(...) == "1" *)
DecodeBool(reply) == Returns(BoolValue(reply = <<"1">>))

(* the reply, as it is *)
DecodeStr(reply) == Returns(StrValue(reply))

(* float(query(...)) *)
DecodeFloat(reply) ==
    LET x == ParseFloat(reply)
    IN  IF x.ok THEN Returns(FloatValue(x)) ELSE Raises("ValueError")

(* int(query(...)) *)
DecodeInt(reply) ==
    LET x == ParseInt(reply)
    IN  IF x.ok THEN Returns(IntValue(x.sig)) ELSE Raises("ValueError")

(* int(x) of a float x *)
IntOfFloat(x) ==
    CASE x.kind = "inf" -> Raises("OverflowError")
      [] x.kind = "nan" -> Raises("ValueError")
      [] OTHER -> Returns(IntValue(Trunc(x)))

(* int(float(query(...))) *)
DecodeIntFloat(reply) ==
    LET x == ParseFloat(reply)
    IN  IF x.ok THEN IntOfFloat(x) ELSE Raises("ValueError")

(* The largest finite arm count; a larger reading stands for INFINITE. *)
MaxArmCount == 2500

(* Variant of DecodeArmCount: the boundary value is normalised too *)
DecodeArmCount_inclusive(reply) ==
    LET val == ParseFloat(reply)
    IN  IF ~val.ok THEN Raises("ValueError")
        ELSE IF GreaterThan(val, MaxArmCount - 1) THEN Returns(IntValue(0 - 1))
        ELSE IntOfFloat(val)

(* Trigger.get_arm_count: val = float(resp); -1 if val > 2500 else int(val) *)
DecodeArmCount(reply) ==
    LET val == ParseFloat(reply)
    IN  IF ~val.ok THEN Raises("ValueError")
        ELSE IF GreaterThan(val, MaxArmCount) THEN Returns(IntValue(0 - 1))
        ELSE IntOfFloat(val)

(* Variant of DecodeError: the reply is split at its last comma *)
DecodeError_last_comma(resp) ==
    LET commas == {i \in DOMAIN resp : resp[i] = ","}
        comma == IF commas = {} THEN 0
                 ELSE CHOOSE i \in commas : \A j \in commas : j <= i
        code == ParseInt(StripSet(SubSeq(resp, 1, comma - 1), {" "}))
        msg == SubSeq(resp, comma + 1, Len(resp))
    IN  IF comma = 0 \/ ~code.ok THEN Raises("ValueError")
        ELSE Returns(ErrorEntry(code.sig,
                                Text(StripSet(StripSet(msg, {" "}), {"\""}))))

(* Status.read_error: code_str, msg = resp.split(",", 1);                  *)
(* int(code_str), msg.strip().strip('"')                                   *)
DecodeError(resp) ==
    LET comma == FirstIndex(resp, {","})
        code == ParseInt(StripSet(SubSeq(resp, 1, comma - 1), {" "}))
        msg == SubSeq(resp, comma + 1, Len(resp))
    IN  IF comma = 0 \/ ~code.ok THEN Raises("ValueError")
        ELSE Returns(ErrorEntry(code.sig,
                                Text(StripSet(StripSet(msg, {" "}), {"\""}))))

(* query_ascii_values: the values as the transport parsed them *)
DecodeValues(reply) == Returns(ListValue(reply))

Decode(decode, reply) ==
    CASE decode = "bool" -> DecodeBool(reply)
      [] decode = "str" -> DecodeStr(reply)
      [] decode = "float" -> DecodeFloat(reply)
      [] decode = "int" -> DecodeInt(reply)
      [] decode = "int_float" -> DecodeIntFloat(reply)
      [] decode = "arm_count" -> DecodeArmCount(reply)
      [] decode = "error" -> DecodeError(reply)
      [] decode = "values" -> DecodeValues(reply)

RepliesOf(decode) ==
    CASE decode = "bool" -> BoolReplies
      [] decode = "str" -> StrReplies
      [] decode = "float" -> FloatReplies
      [] decode = "int" -> IntReplies
      [] decode = "int_float" -> IntReplies
      [] decode = "arm_count" -> ArmReplies
      [] decode = "error" -> ErrorReplies
      [] decode = "values" -> ValueReplies

(* ------------------------------------------------------ controller API *)
(* The getters of each controller: the query head (sent with "?" appended) *)
(* and how the reply is decoded.                                           *)
Getter(cls, name, head, decode) ==
    [cls |-> cls, name |-> name, head |-> head, decode |-> decode]

(* The methods that write: the command head, how the caller's argument is  *)
(* rendered, and the tokens the method documents (for a method without     *)
(* argument: the fixed one).                                               *)
Setter(cls, name, head, enc, tokens) ==
    [cls |-> cls, name |-> name, head |-> head, enc |-> enc,
     tokens |-> tokens]

Funcs == {"VOLT", "CURR"}
Undocumented == "BOGUS"

(* The arguments a setter is called with. *)
ArgsOf(s) ==
    CASE s.enc = "bare" -> {<<>>}
      [] s.enc = "const" -> s.tokens
      [] s.enc = "token" -> s.tokens \cup {Undocumented}
      [] s.enc = "bool" -> BOOLEAN
      [] s.enc = "level" -> {2, 0 - 3}
      [] s.enc = "repr" -> {DefaultDelay, DefaultNplc}
      [] s.enc = "int" -> {1, 2500}
      [] s.enc = "list" -> {<<"VOLT", "CURR">>, <<"TIME">>}
      [] s.enc = "quoted" -> {<<"VOLT">>, <<"CURR:DC">>, <<"VOLT", "CURR">>}

ConnectionGetters ==
    { Getter("Connection", "identify", "*IDN", "str"),
      Getter("Connection", "operation_complete", "*OPC", "bool"),
      Getter("Connection", "self_test", "*TST", "int") }

ConnectionSetters ==
    { Setter("Connection", "reset", "*RST", "bare", {}),
      Setter("Connection", "clear_status", "*CLS", "bare", {}),
      Setter("Connection", "wait", "*WAI", "bare", {}) }

ConfigGetters ==
    { Getter("Config", "is_output_on", ":OUTP", "bool"),
      Getter("Config", "get_output_off_mode", ":OUTP:SMOD", "str"),
      Getter("Config", "get_terminals", ":ROUT:TERM", "str"),
      Getter("Config", "is_four_wire", ":SYST:RSEN", "bool"),
      Getter("Config", "get_auto_zero", ":SYST:AZER:STAT", "str"),
      Getter("Config", "get_guard", ":SYST:GUAR", "str"),
      Getter("Config", "get_data_elements", ":FORM:ELEM", "str"),
      Getter("Config", "is_beeper_on", ":SYST:BEEP:STAT", "bool") }

ConfigSetters ==
    { Setter("Config", "output_on", ":OUTP", "const", {"ON"}),
      Setter("Config", "output_off", ":OUTP", "const", {"OFF"}),
      Setter("Config", "set_output_off_mode", ":OUTP:SMOD", "token",
             {"HIMP", "NORM", "ZERO", "GUAR"}),
      Setter("Config", "set_terminals", ":ROUT:TERM", "token", {"FRON",
             "REAR"}),
      Setter("Config", "set_four_wire", ":SYST:RSEN", "bool", {}),
      Setter("Config", "set_auto_zero", ":SYST:AZER:STAT", "token", {"ON",
             "OFF", "ONCE"}),
      Setter("Config", "set_guard", ":SYST:GUAR", "token", {"OHMS", "CABL"}),
      Setter("Config", "set_data_elements", ":FORM:ELEM", "list", {}),
      Setter("Config", "set_beeper", ":SYST:BEEP:STAT", "bool", {}) }

SourceGetters ==
    { Getter("Source", "get_function", ":SOUR:FUNC", "str"),
      Getter("Source", "get_voltage", ":SOUR:VOLT:LEV", "float"),
      Getter("Source", "get_voltage_range", ":SOUR:VOLT:RANG", "float"),
      Getter("Source", "get_voltage_mode", ":SOUR:VOLT:MODE", "str"),
      Getter("Source", "get_current", ":SOUR:CURR:LEV", "float"),
      Getter("Source", "get_current_range", ":SOUR:CURR:RANG", "float"),
      Getter("Source", "get_current_mode", ":SOUR:CURR:MODE", "str"),
      Getter("Source", "get_delay", ":SOUR:DEL", "float"),
      Getter("Source", "is_auto_delay", ":SOUR:DEL:AUTO", "bool"),
      Getter("Source", "get_voltage_protection", ":SOUR:VOLT:PROT", "float"),
      Getter("Source", "is_voltage_protection_tripped",
             ":SOUR:VOLT:PROT:TRIP", "bool") }

SourceSetters ==
    { Setter("Source", "set_function", ":SOUR:FUNC", "token", {"VOLT",
             "CURR"}),
      Setter("Source", "set_voltage", ":SOUR:VOLT:LEV", "level", {}),
      Setter("Source", "set_voltage_range", ":SOUR:VOLT:RANG", "level", {}),
      Setter("Source", "set_voltage_mode", ":SOUR:VOLT:MODE", "token",
             {"FIX", "SWE", "LIST"}),
      Setter("Source", "set_current", ":SOUR:CURR:LEV", "level", {}),
      Setter("Source", "set_current_range", ":SOUR:CURR:RANG", "level", {}),
      Setter("Source", "set_current_mode", ":SOUR:CURR:MODE", "token",
             {"FIX", "SWE", "LIST"}),
      Setter("Source", "set_delay", ":SOUR:DEL", "repr", {}),
      Setter("Source", "set_auto_delay", ":SOUR:DEL:AUTO", "bool", {}),
      Setter("Source", "set_voltage_protection", ":SOUR:VOLT:PROT",
             "level", {}) }

MeasureGetters ==
    { Getter("Measure", "get_function", ":SENS:FUNC", "str"),
      Getter("Measure", "is_concurrent", ":SENS:FUNC:CONC", "bool"),
      Getter("Measure", "get_voltage_compliance", ":SENS:VOLT:PROT",
             "float"),
      Getter("Measure", "is_voltage_compliance_tripped",
             ":SENS:VOLT:PROT:TRIP", "bool"),
      Getter("Measure", "get_current_compliance", ":SENS:CURR:PROT",
             "float"),
      Getter("Measure", "is_current_compliance_tripped",
             ":SENS:CURR:PROT:TRIP", "bool"),
      Getter("Measure", "get_voltage_range", ":SENS:VOLT:RANG", "float"),
      Getter("Measure", "get_current_range", ":SENS:CURR:RANG", "float"),
      Getter("Measure", "read", ":READ", "values"),
      Getter("Measure", "fetch", ":FETC", "values"),
      Getter("Measure", "measure", ":MEAS", "values") }
    \cup {Getter("Measure", "get_nplc", ":SENS:" \o f \o ":NPLC", "float") :
            f \in Funcs}
    \cup {Getter("Measure", "measure", ":MEAS:" \o f, "values") :
            f \in Funcs}

MeasureSetters ==
    { Setter("Measure", "set_function", ":SENS:FUNC", "quoted", {}),
      Setter("Measure", "set_concurrent", ":SENS:FUNC:CONC", "bool", {}),
      Setter("Measure", "set_voltage_compliance", ":SENS:VOLT:PROT",
             "level", {}),
      Setter("Measure", "set_current_compliance", ":SENS:CURR:PROT",
             "level", {}),
      Setter("Measure", "set_voltage_range", ":SENS:VOLT:RANG", "level", {}),
      Setter("Measure", "set_current_range", ":SENS:CURR:RANG", "level", {}),
      Setter("Measure", "set_resistance_range", ":SENS:RES:RANG", "level",
             {}) }
    \cup {Setter("Measure", "set_auto_range", ":SENS:" \o f \o ":RANG:AUTO",
                 "bool", {}) : f \in Funcs}
    \cup {Setter("Measure", "set_nplc", ":SENS:" \o f \o ":NPLC", "repr", {}) :
            f \in Funcs}

TriggerGetters ==
    { Getter("Trigger", "get_trigger_count", ":TRIG:COUN", "int_float"),
      Getter("Trigger", "get_trigger_delay", ":TRIG:DEL", "float"),
      Getter("Trigger", "get_trigger_source", ":TRIG:SOUR", "str"),
      Getter("Trigger", "get_arm_count", ":ARM:COUN", "arm_count"),
      Getter("Trigger", "get_arm_source", ":ARM:SOUR", "str"),
      Getter("Trigger", "get_arm_timer", ":ARM:TIM", "float") }

TriggerSetters ==
    { Setter("Trigger", "initiate", ":INIT", "bare", {}),
      Setter("Trigger", "abort", ":ABOR", "bare", {}),
      Setter("Trigger", "set_trigger_count", ":TRIG:COUN", "int", {}),
      Setter("Trigger", "set_trigger_delay", ":TRIG:DEL", "repr", {}),
      Setter("Trigger", "set_trigger_source", ":TRIG:SOUR", "token",
             {"IMM", "TLIN"}),
      Setter("Trigger", "set_arm_count", ":ARM:COUN", "int", {}),
      Setter("Trigger", "set_arm_source", ":ARM:SOUR", "token", {"IMM",
             "TIM", "MAN", "BUS", "TLIN", "NST", "PST", "BST"}),
      Setter("Trigger", "set_arm_timer", ":ARM:TIM", "repr", {}) }

StatusGetters ==
    { Getter("Status", "read_error", ":SYST:ERR", "error"),
      Getter("Status", "read_status_byte", "*STB", "int"),
      Getter("Status", "read_event_register", "*ESR", "int"),
      Getter("Status", "read_measurement_event", ":STAT:MEAS", "int"),
      Getter("Status", "read_operation_event", ":STAT:OPER", "int"),
      Getter("Status", "read_questionable_event", ":STAT:QUES", "int") }

StatusSetters ==
    { Setter("Status", "clear", "*CLS", "bare", {}),
      Setter("Status", "set_measurement_enable", ":STAT:MEAS:ENAB", "int",
             {}),
      Setter("Status", "set_operation_enable", ":STAT:OPER:ENAB", "int", {}),
      Setter("Status", "set_questionable_enable", ":STAT:QUES:ENAB", "int",
             {}),
      Setter("Status", "preset", ":STAT:PRES", "bare", {}) }

DataBufferGetters ==
    { Getter("DataBuffer", "get_size", ":TRAC:POIN", "int_float"),
      Getter("DataBuffer", "get_free", ":TRAC:FREE", "str"),
      Getter("DataBuffer", "get_control", ":TRAC:CONT", "str"),
      Getter("DataBuffer", "read", ":TRAC:DATA", "values"),
      Getter("DataBuffer", "get_count", ":TRAC:POIN:ACT", "int_float"),
      Getter("DataBuffer", "get_timestamp_format", ":TRAC:TST:FORM", "str") }

DataBufferSetters ==
    { Setter("DataBuffer", "set_size", ":TRAC:POIN", "int", {}),
      Setter("DataBuffer", "clear", ":TRAC:CLE", "bare", {}),
      Setter("DataBuffer", "set_feed", ":TRAC:FEED", "token", {"SENS",
             "CALC", "CALC2"}),
      Setter("DataBuffer", "set_control", ":TRAC:CONT", "token", {"NEXT",
             "NEV"}),
      Setter("DataBuffer", "set_timestamp_format", ":TRAC:TST:FORM",
             "token", {"ABS", "DELT"}) }

Getters ==
    ConnectionGetters \cup ConfigGetters \cup SourceGetters
        \cup MeasureGetters \cup TriggerGetters \cup StatusGetters
        \cup DataBufferGetters

Setters ==
    ConnectionSetters \cup ConfigSetters \cup SourceSetters
        \cup MeasureSetters \cup TriggerSetters \cup StatusSetters
        \cup DataBufferSetters

(* ----------------------------------------------------------- behaviour *)
Init ==
    /\ pc = "idle"
    /\ variant = "none"
    /\ args = NoArgs
    /\ num_points = 0
    /\ idx = 0
    /\ commands = <<>>
    /\ raw = <<>>
    /\ result = <<>>
    /\ error = NoError
    /\ calls = <<>>
    /\ inst = NoInstrument
    /\ errors = <<>>

(* Entry of a sweep: the point count is resolved before the first command. *)
Enter(v, a, n) ==
    /\ pc = "idle"
    /\ pc' = "config"
    /\ variant' = v
    /\ args' = a
    /\ num_points' = n
    /\ idx' = 1
    /\ UNCHANGED <<ctl, commands, raw, result, error>>

(* Variant of EnterZeroStep: the instrument is reset before the point      *)
(* count is computed                                                       *)
EnterZeroStep_after_reset(v, a) ==
    /\ pc = "idle"
    /\ pc' = "raised"
    /\ variant' = v
    /\ args' = a
    /\ commands' = Append(commands, Conn_reset)
    /\ error' = [type |-> "ZeroDivisionError", at |-> 0]
    /\ UNCHANGED <<ctl, num_points, idx, raw, result>>

(* A linear sweep called with step = 0: the division raises. *)
EnterZeroStep(v, a) ==
    /\ pc = "idle"
    /\ pc' = "raised"
    /\ variant' = v
    /\ args' = a
    /\ error' = [type |-> "ZeroDivisionError", at |-> 0]
    /\ UNCHANGED <<ctl, num_points, idx, commands, raw, result>>

voltage_sweep_linear ==
    \E start \in Levels, stop \in Levels, step \in Steps, c \in Compliances :
        IF step = 0
        THEN EnterZeroStep("voltage_sweep_linear",
                           LinearArgs(start, stop, step, c))
        ELSE Enter("voltage_sweep_linear", LinearArgs(start, stop, step, c),
                   NumPoints(start, stop, step))

current_sweep_linear ==
    \E start \in Levels, stop \in Levels, step \in Steps, c \in Compliances :
        IF step = 0
        THEN EnterZeroStep("current_sweep_linear",
                           LinearArgs(start, stop, step, c))
        ELSE Enter("current_sweep_linear", LinearArgs(start, stop, step, c),
                   NumPoints(start, stop, step))

voltage_sweep_log ==
    \E start \in Levels, stop \in Levels, points \in PointCounts,
       c \in Compliances :
        Enter("voltage_sweep_log", LogArgs(start, stop, points, c), points)

current_sweep_log ==
    \E start \in Levels, stop \in Levels, points \in PointCounts,
       c \in Compliances :
        Enter("current_sweep_log", LogArgs(start, stop, points, c), points)

voltage_sweep_list ==
    \E levels \in SeqsUpTo(Levels, MaxListLen), c \in Compliances :
        Enter("voltage_sweep_list", ListArgs(levels, c), Len(levels))

current_sweep_list ==
    \E levels \in SeqsUpTo(Levels, MaxListLen), c \in Compliances :
        Enter("current_sweep_list", ListArgs(levels, c), Len(levels))

(* The facade's single-point operations: no point count is involved. *)
source_voltage ==
    \E volts \in Levels, c \in Compliances, measure \in {"CURR", "RES"} :
        Enter("source_voltage", FacadeArgs(volts, c, measure), 0)

source_current ==
    \E amps \in Levels, c \in Compliances, measure \in {"VOLT", "RES"} :
        Enter("source_current", FacadeArgs(amps, c, measure), 0)

Config == ConfigOf(variant, args, num_points)

(* Variant of Raise: the failing command is sent a second time *)
Raise_retrying(cmd) ==
    /\ commands' = commands \o <<cmd, cmd>>
    /\ error' = [type |-> "TransportError", at |-> Len(commands) + 1]
    /\ pc' = "raised"
    /\ UNCHANGED <<ctl, variant, args, num_points, idx, raw, result>>

(* A transport call that raises: the command was handed to the transport,  *)
(* the exception unwinds the sweep, nothing in the sweep catches it.       *)
Raise(cmd) ==
    /\ commands' = Append(commands, cmd)
    /\ error' = [type |-> "TransportError", at |-> Len(commands) + 1]
    /\ pc' = "raised"
    /\ UNCHANGED <<ctl, variant, args, num_points, idx, raw, result>>

SendConfig ==
    /\ pc = "config"
    /\ commands' = Append(commands, Config[idx])
    /\ idx' = idx + 1
    /\ pc' = IF idx = Len(Config) THEN "output_on" ELSE "config"
    /\ UNCHANGED <<ctl, variant, args, num_points, raw, result, error>>

(* Variant of SendConfigFails: the exception is caught and the sweep goes on *)
SendConfigFails_swallowed ==
    /\ pc = "config"
    /\ commands' = Append(commands, Config[idx])
    /\ error' = [type |-> "TransportError", at |-> Len(commands) + 1]
    /\ idx' = idx + 1
    /\ pc' = IF idx = Len(Config) THEN "output_on" ELSE "config"
    /\ UNCHANGED <<ctl, variant, args, num_points, raw, result>>

SendConfigFails ==
    /\ pc = "config"
    /\ Raise(Config[idx])

OutputOn ==
    /\ pc = "output_on"
    /\ commands' = Append(commands, Config_output_on)
    /\ pc' = "read"
    /\ UNCHANGED <<ctl, variant, args, num_points, idx, raw, result, error>>

OutputOnFails ==
    /\ pc = "output_on"
    /\ Raise(Config_output_on)

Read ==
    /\ pc = "read"
    /\ \E reply \in SeqsUpTo(ReplyVals, MaxReplyLen) :
        /\ commands' = Append(commands, Measure_read)
        /\ raw' = reply
    /\ pc' = "output_off"
    /\ UNCHANGED <<ctl, variant, args, num_points, idx, result, error>>

(* Variant of ReadFails: the running cycle is aborted after a failed read *)
ReadFails_aborting ==
    /\ pc = "read"
    /\ commands' = commands \o <<Measure_read, Write(":ABOR", <<>>)>>
    /\ error' = [type |-> "TransportError", at |-> Len(commands) + 1]
    /\ pc' = "raised"
    /\ UNCHANGED <<ctl, variant, args, num_points, idx, raw, result>>

ReadFails ==
    /\ pc = "read"
    /\ Raise(Measure_read)

(* Variant of OutputOff: the sweep returns without disabling the output *)
OutputOff_skipped ==
    /\ pc = "output_off"
    /\ pc' = "parse"
    /\ UNCHANGED <<ctl, variant, args, num_points, idx, commands, raw, result,
                   error>>

OutputOff ==
    /\ pc = "output_off"
    /\ commands' = Append(commands, Config_output_off)
    /\ pc' = "parse"
    /\ UNCHANGED <<ctl, variant, args, num_points, idx, raw, result, error>>

OutputOffFails ==
    /\ pc = "output_off"
    /\ Raise(Config_output_off)

Return ==
    /\ pc = "parse"
    /\ variant \in Variants
    /\ result' = parse_two_element(raw, "voltage", "current")
    /\ pc' = "returned"
    /\ UNCHANGED <<ctl, variant, args, num_points, idx, commands, raw, error>>

(* ------------------------------------------------- controller calls *)
(* The argument of a setter as it is rendered into the command.            *)
Encode(enc, arg) ==
    CASE enc = "bare" -> <<>>
      [] enc = "const" -> <<arg>>
      [] enc = "token" -> <<arg>>
      [] enc = "bool" -> <<OnOff(arg)>>
      [] enc = "level" -> <<FormatE(arg)>>
      [] enc = "repr" -> <<FormatRepr(arg)>>
      [] enc = "int" -> <<FormatInt(arg)>>
      [] enc = "list" -> arg
      [] enc = "quoted" -> [i \in DOMAIN arg |-> "\"" \o arg[i] \o "\""]

(* The value last written for a setting, as an echoing transport answers   *)
(* the setting's query with it.                                            *)
LastWritten(head) ==
    LET at == {i \in DOMAIN commands :
                  commands[i].kind = "write" /\ commands[i].head = head}
        last == CHOOSE i \in at : \A j \in at : j <= i
    IN  IF at = {} THEN {}
        ELSE IF Join(commands[last].args) \in DOMAIN Spelling
        THEN {Spelling[Join(commands[last].args)]}
        ELSE {}

(* One call on a controller outside a sweep: the commands it issues are    *)
(* appended to the trace and the call is recorded with what it gave back.  *)
(* The calls of one run of the model address one setting.                  *)
Call(kind, m, arg, reply, outcome, cmds) ==
    /\ pc \in {"idle", "session"}
    /\ Len(calls) < MaxCalls
    /\ IF calls = <<>> THEN TRUE ELSE calls[1].head = m.head
    /\ commands' = commands \o cmds
    /\ calls' = Append(calls,
                       [kind |-> kind, cls |-> m.cls, name |-> m.name,
                        head |-> m.head, arg |-> arg, reply |-> reply,
                        outcome |-> outcome, first |-> Len(commands) + 1,
                        count |-> Len(cmds)])
    /\ pc' = "session"
    /\ UNCHANGED <<variant, args, num_points, idx, raw, result, error, inst,
                   errors>>

(* Variant of GetterCall: a repeated call answers from the previous call's *)
(* value without a query                                                   *)
GetterCall_cached(g, reply) ==
    IF calls # <<>> /\ calls[Len(calls)].kind = "get"
          /\ calls[Len(calls)].name = g.name
    THEN Call("get", g, <<>>, reply, calls[Len(calls)].outcome, <<>>)
    ELSE Call("get", g, <<>>, reply, Decode(g.decode, reply),
              <<Query(g.head \o "?")>>)

(* A getter: one query, the reply decoded and returned. *)
GetterCall(g, reply) ==
    Call("get", g, <<>>, reply, Decode(g.decode, reply),
         <<Query(g.head \o "?")>>)

(* Variant of SetterCall: a token outside the documented set is rejected   *)
SetterCall_validating(s, arg) ==
    IF s.enc = "token" /\ arg = Undocumented
    THEN Call("set", s, arg, <<>>, Raises("ValueError"), <<>>)
    ELSE Call("set", s, arg, <<>>, Returns(None),
              <<Write(s.head, Encode(s.enc, arg))>>)

(* A setter: one write, nothing returned. *)
SetterCall(s, arg) ==
    Call("set", s, arg, <<>>, Returns(None),
         <<Write(s.head, Encode(s.enc, arg))>>)

Get ==
    \E g \in Getters :
        \E reply \in RepliesOf(g.decode)
                        \cup (IF g.decode = "str" THEN LastWritten(g.head)
                              ELSE {}) :
            GetterCall(g, reply)

Set == \E s \in Setters : \E arg \in ArgsOf(s) : SetterCall(s, arg)

(* Measure.set_filter: three writes, the enable state last. *)
FilterTypes == {"REP", "MOV"}
DefaultFilterCount == 10

Measure_set_filter ==
    \E enable \in BOOLEAN, filter_type \in FilterTypes :
        Call("set",
             [cls |-> "Measure", name |-> "set_filter", head |-> ":SENS:AVER"],
             <<enable, filter_type, DefaultFilterCount>>, <<>>, Returns(None),
             << Write(":SENS:AVER:TCON", <<filter_type>>),
                Write(":SENS:AVER:COUN", <<FormatInt(DefaultFilterCount)>>),
                Write(":SENS:AVER", <<OnOff(enable)>>) >>)

(* A controller call whose k-th transport call raises: the commands up to  *)
(* that one were handed to the transport, the exception leaves the method. *)
CallFails(m, cmds, k) ==
    /\ pc \in {"idle", "session"}
    /\ Len(calls) < MaxCalls
    /\ IF calls = <<>> THEN TRUE ELSE calls[1].head = m.head
    /\ commands' = commands \o SubSeq(cmds, 1, k)
    /\ error' = [type |-> "TransportError", at |-> Len(commands) + k]
    /\ pc' = "call_raised"
    /\ UNCHANGED <<variant, args, num_points, idx, raw, result, ctl>>

GetFails ==
    \E g \in Getters : CallFails(g, <<Query(g.head \o "?")>>, 1)

SetFails ==
    \E s \in Setters : \E arg \in ArgsOf(s) :
        CallFails(s, <<Write(s.head, Encode(s.enc, arg))>>, 1)

Measure_set_filter_fails ==
    \E enable \in BOOLEAN, filter_type \in FilterTypes, k \in 1..3 :
        CallFails([head |-> ":SENS:AVER"],
                  << Write(":SENS:AVER:TCON", <<filter_type>>),
                     Write(":SENS:AVER:COUN",
                           <<FormatInt(DefaultFilterCount)>>),
                     Write(":SENS:AVER", <<OnOff(enable)>>) >>, k)

(* ------------------------------------------------------ error queue *)
(* What read_error makes of each reply of the model, computed once.        *)
ErrorEntryOf == [resp \in ErrorReplies |-> DecodeError(resp)]

(* What the instrument answers to the i-th :SYST:ERR? of a drain: the      *)
(* entries of its queue in order and, once they are used up, its steady    *)
(* answer (0,"No error" for a working instrument).                         *)
Answer(i) == IF i <= Len(inst.queue) THEN inst.queue[i] ELSE inst.steady

(* Variant of ReadErrorStep: the sentinel is collected too *)
ReadErrorStep_keeps_sentinel ==
    /\ pc = "drain"
    /\ Len(commands) < MaxQueue + 2
    /\ LET entry == ErrorEntryOf[Answer(inst.next)]
       IN  /\ commands' = Append(commands, Query(":SYST:ERR?"))
           /\ inst' = [inst EXCEPT !.next = inst.next + 1]
           /\ IF entry.raised # ""
              THEN /\ pc' = "drain_raised"
                   /\ error' = [type |-> entry.raised, at |-> Len(commands) + 1]
                   /\ UNCHANGED errors
              ELSE /\ errors' = Append(errors, entry.value.v)
                   /\ pc' = IF entry.value.v[1] = 0 THEN "drained" ELSE "drain"
                   /\ UNCHANGED error
    /\ UNCHANGED <<variant, args, num_points, idx, raw, result, calls>>

(* Variant of ReadErrorStep: the loop gives up after two entries *)
ReadErrorStep_capped ==
    /\ pc = "drain"
    /\ Len(commands) < MaxQueue + 2
    /\ LET entry == ErrorEntryOf[Answer(inst.next)]
       IN  /\ commands' = Append(commands, Query(":SYST:ERR?"))
           /\ inst' = [inst EXCEPT !.next = inst.next + 1]
           /\ IF entry.raised # ""
              THEN /\ pc' = "drain_raised"
                   /\ error' = [type |-> entry.raised, at |-> Len(commands) + 1]
                   /\ UNCHANGED errors
              ELSE IF entry.value.v[1] = 0
              THEN /\ pc' = "drained"
                   /\ UNCHANGED <<errors, error>>
              ELSE /\ errors' = Append(errors, entry.value.v)
                   /\ pc' = IF Len(errors) >= 1 THEN "drained" ELSE "drain"
                   /\ UNCHANGED error
    /\ UNCHANGED <<variant, args, num_points, idx, raw, result, calls>>

(* Status.read_all_errors is entered with an empty list. *)
read_all_errors ==
    /\ pc = "idle"
    /\ \E queue \in SeqsUpTo(ErrorReplies, MaxQueue),
          steady \in {Chars("0,\"No error\""), Chars("15,\"overflow\"")} :
          inst' = [queue |-> queue, steady |-> steady, next |-> 1]
    /\ errors' = <<>>
    /\ pc' = "drain"
    /\ UNCHANGED <<variant, args, num_points, idx, commands, raw, result,
                   error, calls>>

(* One iteration of the loop: read_error, then break on code 0 or append.  *)
(* The loop itself has no cap; the model stops exploring it after          *)
(* MaxQueue + 2 queries.                                                   *)
ReadErrorStep ==
    /\ pc = "drain"
    /\ Len(commands) < MaxQueue + 2
    /\ LET entry == ErrorEntryOf[Answer(inst.next)]
       IN  /\ commands' = Append(commands, Query(":SYST:ERR?"))
           /\ inst' = [inst EXCEPT !.next = inst.next + 1]
           /\ IF entry.raised # ""
              THEN /\ pc' = "drain_raised"
                   /\ error' = [type |-> entry.raised, at |-> Len(commands) + 1]
                   /\ UNCHANGED errors
              ELSE IF entry.value.v[1] = 0
              THEN /\ pc' = "drained"
                   /\ UNCHANGED <<errors, error>>
              ELSE /\ errors' = Append(errors, entry.value.v)
                   /\ pc' = "drain"
                   /\ UNCHANGED error
    /\ UNCHANGED <<variant, args, num_points, idx, raw, result, calls>>

(* The :SYST:ERR? of an iteration raises: read_all_errors has no handler,  *)
(* the entries collected so far are lost with the call.                    *)
ReadErrorFails ==
    /\ pc = "drain"
    /\ Len(commands) < MaxQueue + 2
    /\ commands' = Append(commands, Query(":SYST:ERR?"))
    /\ error' = [type |-> "TransportError", at |-> Len(commands) + 1]
    /\ pc' = "drain_raised"
    /\ UNCHANGED <<variant, args, num_points, idx, raw, result, ctl>>

(* source_voltage / source_current: return data, the reply as it is. *)
ReturnData ==
    /\ pc = "parse"
    /\ variant \in FacadeOps
    /\ result' = raw
    /\ pc' = "returned"
    /\ UNCHANGED <<ctl, variant, args, num_points, idx, commands, raw, error>>

(* Keithley2400.close, also reached from __exit__ whether the body of the  *)
(* with statement returned or raised: output_off(), then conn.close().     *)
CanClose ==
    \/ pc = "idle"
    \/ variant \in FacadeOps /\ pc \in {"returned", "raised"}

(* Variant of close: the session is closed before the output is disabled *)
close_transport_first ==
    /\ CanClose
    /\ commands' = commands \o <<Close, Config_output_off>>
    /\ pc' = "closed"
    /\ UNCHANGED <<ctl, variant, args, num_points, idx, raw, result, error>>

close ==
    /\ CanClose
    /\ commands' = commands \o <<Config_output_off, Close>>
    /\ pc' = "closed"
    /\ UNCHANGED <<ctl, variant, args, num_points, idx, raw, result, error>>

(* output_off() raises inside close: conn.close() is not reached. *)
closeFails ==
    /\ CanClose
    /\ commands' = Append(commands, Config_output_off)
    /\ error' = [type |-> "TransportError", at |-> Len(commands) + 1]
    /\ pc' = "close_raised"
    /\ UNCHANGED <<ctl, variant, args, num_points, idx, raw, result>>

Next ==
    \/ voltage_sweep_linear
    \/ current_sweep_linear
    \/ voltage_sweep_log
    \/ current_sweep_log
    \/ voltage_sweep_list
    \/ current_sweep_list
    \/ SendConfig
    \/ SendConfigFails
    \/ OutputOn
    \/ OutputOnFails
    \/ Read
    \/ ReadFails
    \/ OutputOff
    \/ OutputOffFails
    \/ Return
    \/ Get
    \/ Set
    \/ Measure_set_filter
    \/ read_all_errors
    \/ ReadErrorStep
    \/ GetFails
    \/ SetFails
    \/ Measure_set_filter_fails
    \/ ReadErrorFails
    \/ source_voltage
    \/ source_current
    \/ ReturnData
    \/ close
    \/ closeFails

Spec == Init /\ [][Next]_vars

(* The error-queue drain on its own, its loop taking a step whenever it    *)
(* can: the loop is sequential code and the transport answers each query.  *)
DrainNext == read_all_errors \/ ReadErrorStep

DrainSpec == Init /\ [][DrainNext]_vars /\ WF_vars(ReadErrorStep)

(* ---------------------------------------------------------- properties *)
IsOutpOn(c) == c.kind = "write" /\ Wire(c) = ":OUTP ON"
IsOutpOff(c) == c.kind = "write" /\ Wire(c) = ":OUTP OFF"
IsRead(c) == c.kind = "query" /\ c.head = ":READ?"
IsConfigCmd(c) == c.head # ":OUTP" /\ c.head # ":READ?"

Finished == variant \in Variants /\ pc \in {"returned", "raised"}
InSweep == variant \in Variants
OutpOnAt == {i \in DOMAIN commands : IsOutpOn(commands[i])}
OutpOffAt == {i \in DOMAIN commands : IsOutpOff(commands[i])}
ReadAt == {i \in DOMAIN commands : IsRead(commands[i])}
HasHead(h) == {i \in DOMAIN commands : commands[i].head = h}

(* A pattern item matches a command by its whole text or by its head. *)
Matches(p, c) == Wire(c) = p \/ (c.head = p /\ c.args # <<>>)

RECURSIVE InRelativeOrder(_, _)
InRelativeOrder(pat, seq) ==
    IF pat = <<>> THEN TRUE
    ELSE IF seq = <<>> THEN FALSE
    ELSE IF Matches(Head(pat), Head(seq))
         THEN InRelativeOrder(Tail(pat), Tail(seq))
         ELSE InRelativeOrder(pat, Tail(seq))

Interleave(a, b) ==
    [i \in 1..(2 * Len(a)) |->
        IF i % 2 = 1 THEN a[(i + 1) \div 2] ELSE b[i \div 2]]

SweepTypeHeads ==
    {":SOUR:VOLT:START", ":SOUR:VOLT:STOP", ":SOUR:VOLT:STEP",
     ":SOUR:VOLT:MODE", ":SOUR:CURR:START", ":SOUR:CURR:STOP",
     ":SOUR:CURR:STEP", ":SOUR:CURR:MODE", ":SOUR:SWE:RANG",
     ":SOUR:SWE:SPAC", ":SOUR:SWE:POIN", ":SOUR:LIST:VOLT",
     ":SOUR:LIST:CURR"}

(* C1: in every sweep variant, when :OUTP ON was sent and :READ? then      *)
(* fails with a transport error, :OUTP OFF is still sent before the error  *)
(* reaches the caller: a finished sweep whose trace holds :READ? holds an  *)
(* :OUTP OFF after it.                                                     *)
C1_OutputOffAfterFailedRead ==
    Finished =>
        \A i \in ReadAt : \E j \in OutpOffAt : j > i

(* C2: in every sweep variant, when a configuration command, from the      *)
(* reset up to and including :FORM:ELEM, fails with a transport error, the *)
(* sweep stops at that command: the error is raised to the caller, the     *)
(* failing command is the last one on the trace, and neither :OUTP ON nor  *)
(* :READ? is on it.                                                        *)
C2_ConfigFailureAborts ==
    (InSweep /\ error.type = "TransportError"
       /\ IsConfigCmd(commands[error.at])) =>
        /\ pc = "raised"
        /\ Len(commands) = error.at
        /\ OutpOnAt = {}
        /\ ReadAt = {}

C2_Witness ==
    /\ pc = "raised"
    /\ error.type = "TransportError"
    /\ error.at = 5
    /\ commands[5].head = ":SENS:VOLT:PROT"

(* C3: a successful linear voltage sweep sends, in this relative order,    *)
(* *RST, :SENS:FUNC:CONC OFF, the source function, sense function,         *)
(* compliance and NPLC, then START, STOP, STEP, MODE SWE, range AUTO,      *)
(* spacing LIN, then :TRIG:COUN <points>, :SOUR:DEL, :FORM:ELEM, :OUTP ON, *)
(* :READ?, :OUTP OFF; for 0 V to 1 V in 0.5 V steps the trigger command    *)
(* is exactly :TRIG:COUN 3.                                                *)
C3_LinearVoltageOrder ==
    (pc = "returned" /\ variant = "voltage_sweep_linear") =>
        /\ InRelativeOrder(
              << "*RST", ":SENS:FUNC:CONC OFF", ":SOUR:FUNC VOLT",
                 ":SENS:FUNC \"CURR:DC\"", ":SENS:CURR:PROT",
                 ":SENS:CURR:NPLC", ":SOUR:VOLT:START", ":SOUR:VOLT:STOP",
                 ":SOUR:VOLT:STEP", ":SOUR:VOLT:MODE SWE",
                 ":SOUR:SWE:RANG AUTO", ":SOUR:SWE:SPAC LIN",
                 ":TRIG:COUN " \o ToString(num_points), ":SOUR:DEL",
                 ":FORM:ELEM", ":OUTP ON", ":READ?", ":OUTP OFF" >>,
              commands)
        /\ (args.start = 0 /\ args.stop = 2 /\ args.step = 1) =>
              \E i \in DOMAIN commands :
                  /\ Wire(commands[i]) = ":TRIG:COUN 3"
                  /\ HasHead(":TRIG:COUN") = {i}

C3_Witness ==
    /\ pc = "returned"
    /\ variant = "voltage_sweep_linear"
    /\ args.start = 0 /\ args.stop = 2 /\ args.step = 1

(* C4: in each of the six variants a successful sweep sends exactly one    *)
(* :OUTP ON, one :READ? and one :OUTP OFF, in that order, every            *)
(* configuration command before :OUTP ON, :OUTP OFF last on the trace, and *)
(* :READ? the only query.                                                  *)
C4_OneOnReadOff ==
    (InSweep /\ pc = "returned") =>
        LET n == Len(commands)
        IN  /\ n >= 3
            /\ OutpOnAt = {n - 2}
            /\ ReadAt = {n - 1}
            /\ OutpOffAt = {n}
            /\ HasHead(":OUTP") = {n - 2, n}
            /\ \A i \in 1..(n - 3) : IsConfigCmd(commands[i])
            /\ \A i \in 1..n : commands[i].kind = "query" => i = n - 1

C4_Witness ==
    /\ pc = "returned"
    /\ variant = "current_sweep_log"
    /\ Len(commands) = 18

(* C5: for a flat reply of 2n values the demultiplexer returns the values  *)
(* at indices 0,2,4,... as the first channel and those at 1,3,5,... as the *)
(* second, each in order and of length n, and re-interleaving them gives   *)
(* the reply back; [1,2,3,4,5,6] gives [1,3,5] and [2,4,6]; a single point *)
(* [10, 0.001] (here in thousandths) gives [10] and [0.001].               *)
C5_Demultiplex ==
    /\ (InSweep /\ pc = "returned" /\ Len(raw) % 2 = 0) =>
          LET n == Len(raw) \div 2
              a == result[1].vals
              b == result[2].vals
          IN  /\ Len(a) = n /\ Len(b) = n
              /\ \A i \in 1..n : a[i] = raw[2 * i - 1] /\ b[i] = raw[2 * i]
              /\ Interleave(a, b) = raw
    /\ parse_two_element(<<1, 2, 3, 4, 5, 6>>, "a", "b")
          = << [key |-> "a", vals |-> <<1, 3, 5>>],
               [key |-> "b", vals |-> <<2, 4, 6>>] >>
    /\ parse_two_element(<<10000, 1>>, "a", "b")
          = << [key |-> "a", vals |-> <<10000>>],
               [key |-> "b", vals |-> <<1>>] >>

C5_Witness ==
    /\ pc = "returned"
    /\ Len(raw) = 4
    /\ raw[1] # raw[2]
    /\ raw[3] # raw[4]

(* C6: a sweep whose :READ? reply does not hold exactly 2 x (resolved      *)
(* point count) values reports a ParseError and returns nothing: a         *)
(* returned result always has channels of the resolved point count.        *)
C6_MismatchIsParseError ==
    (InSweep /\ pc = "returned") =>
        /\ Len(raw) = 2 * num_points
        /\ \A k \in DOMAIN result : Len(result[k].vals) = num_points

(* C7: every returned result has exactly the channels "voltage" and        *)
(* "current", in that order, of equal length, for every reply including    *)
(* one with an odd number of values.                                       *)
C7_ChannelsEqualLength ==
    (InSweep /\ pc = "returned") =>
        /\ Len(result) = 2
        /\ result[1].key = "voltage"
        /\ result[2].key = "current"
        /\ Len(result[1].vals) = Len(result[2].vals)

(* C8: for a linear sweep with non-zero step the resolved point count is   *)
(* round(|stop-start| / |step|) + 1, the nearest integer with a tie going  *)
(* to the even one: it depends only on the magnitudes (same for a negated  *)
(* step and for start and stop exchanged), 0 to 1.0 by 0.5 gives 3,        *)
(* start = stop gives 1, and it is at least 1.                             *)
C8_LinearPointCount ==
    (variant \in LinearVariants /\ pc # "idle" /\ args.step # 0) =>
        LET d == Abs(args.stop - args.start)
            s == Abs(args.step)
            n == num_points - 1
        IN  /\ n >= 0
            /\ 2 * Abs(d - n * s) <= s
            /\ (2 * Abs(d - n * s) = s) => n % 2 = 0
            /\ num_points >= 1
            /\ NumPoints(args.start, args.stop, 0 - args.step) = num_points
            /\ NumPoints(args.stop, args.start, args.step) = num_points
            /\ (args.start = args.stop) => num_points = 1
            /\ (args.start = 0 /\ args.stop = 2 /\ s = 1) => num_points = 3

C8_Witness ==
    /\ variant = "current_sweep_linear"
    /\ pc = "config"
    /\ args.start = 2 /\ args.stop = 0 /\ args.step = 0 - 1
    /\ num_points = 3

(* C9: in all six variants the single :TRIG:COUN command carries the       *)
(* resolved point count (linear: the computed count; logarithmic: the      *)
(* caller's point count; list: the length of the list) and is sent after   *)
(* the sweep-type parameters and before :SOUR:DEL, :FORM:ELEM and :OUTP ON.*)
ResolvedPoints ==
    CASE variant \in LinearVariants -> num_points
      [] variant \in LogVariants -> args.points
      [] variant \in ListVariants -> Len(args.levels)

C9_TriggerCountIsPointCount ==
    (InSweep /\ OutpOnAt # {}) =>
        \E k \in DOMAIN commands :
            /\ HasHead(":TRIG:COUN") = {k}
            /\ commands[k].args = <<ToString(ResolvedPoints)>>
            /\ \A i \in DOMAIN commands :
                  commands[i].head \in SweepTypeHeads => i < k
            /\ \E i \in HasHead(":SOUR:DEL") : i > k
            /\ \E i \in HasHead(":FORM:ELEM") : i > k
            /\ \A i \in HasHead(":SOUR:DEL") \cup HasHead(":FORM:ELEM")
                        \cup HasHead(":OUTP") : i > k
            /\ \E i \in DOMAIN commands :
                  commands[i].head \in SweepTypeHeads

C9_Witness ==
    /\ pc = "returned"
    /\ variant = "voltage_sweep_list"
    /\ Len(args.levels) = 2

(* C10 as stated: in every variant :FORM:ELEM selects (excitation, sense)  *)
(* in that order and the even-indexed reply values are returned under the  *)
(* excitation quantity's channel; for the current-source sweeps the        *)
(* even-indexed values are the current channel.                            *)
Excitation == IF variant \in VoltageVariants THEN "VOLT" ELSE "CURR"
Sense == IF variant \in VoltageVariants THEN "CURR" ELSE "VOLT"
ChannelOf(q) == IF q = "VOLT" THEN "voltage" ELSE "current"

C10_ExcitationFirst ==
    /\ InSweep =>
          \A i \in HasHead(":FORM:ELEM") :
              commands[i].args = <<Excitation, Sense>>
    /\ (InSweep /\ pc = "returned") =>
          /\ result[1].key = ChannelOf(Excitation)
          /\ result[2].key = ChannelOf(Sense)

(* C10 amended: in every variant :FORM:ELEM selects VOLT,CURR in that      *)
(* order whatever the excitation, the even-indexed reply values are        *)
(* returned under "voltage" and the odd-indexed under "current"; so the    *)
(* even-indexed values are the excitation channel for the voltage-source   *)
(* sweeps and the sensed (voltage) channel for the current-source sweeps.  *)
C10_VoltageFirst ==
    /\ InSweep =>
          \A i \in HasHead(":FORM:ELEM") :
              commands[i].args = <<"VOLT", "CURR">>
    /\ (InSweep /\ OutpOnAt # {}) => HasHead(":FORM:ELEM") # {}
    /\ (InSweep /\ pc = "returned") =>
          /\ result[1].key = "voltage"
          /\ result[2].key = "current"
          /\ Len(result[1].vals) = (Len(raw) + 1) \div 2
          /\ Len(result[2].vals) = Len(raw) \div 2
          /\ \A j \in DOMAIN result[1].vals :
                result[1].vals[j] = raw[2 * j - 1]
          /\ \A j \in DOMAIN result[2].vals : result[2].vals[j] = raw[2 * j]
          /\ result[1].key = ChannelOf(Excitation) <=>
                variant \in VoltageVariants

C10_Witness ==
    /\ pc = "returned"
    /\ variant = "current_sweep_list"
    /\ Len(raw) = 4
    /\ raw[1] # raw[2]

(* C11: in every sweep variant the sense side is the complement of the     *)
(* source side: a voltage sweep sends :SOUR:FUNC VOLT, senses current and  *)
(* sets only the current compliance and current NPLC, a current sweep the  *)
(* reverse; and every start, stop, step, mode and list command addresses   *)
(* the excitation quantity, never the sensed one.                          *)
SenseSideHeads(q) == {":SENS:" \o q \o ":PROT", ":SENS:" \o q \o ":NPLC"}
SourceSideHeads(q) ==
    {":SOUR:" \o q \o ":START", ":SOUR:" \o q \o ":STOP",
     ":SOUR:" \o q \o ":STEP", ":SOUR:" \o q \o ":MODE",
     ":SOUR:LIST:" \o q}

C11_SenseComplementsSource ==
    InSweep =>
        /\ \A i \in HasHead(":SOUR:FUNC") : commands[i].args = <<Excitation>>
        /\ \A i \in HasHead(":SENS:FUNC") :
              commands[i].args = <<"\"" \o Sense \o ":DC\"">>
        /\ \A i \in DOMAIN commands :
              /\ commands[i].head \notin SenseSideHeads(Excitation)
              /\ commands[i].head \notin SourceSideHeads(Sense)
        /\ OutpOnAt # {} =>
              /\ HasHead(":SOUR:FUNC") # {}
              /\ HasHead(":SENS:FUNC") # {}
              /\ \A h \in SenseSideHeads(Sense) : HasHead(h) # {}
              /\ HasHead(":SOUR:" \o Excitation \o ":MODE") # {}
              /\ \E i \in DOMAIN commands :
                    commands[i].head \in SourceSideHeads(Excitation)
                        \ {":SOUR:" \o Excitation \o ":MODE"}

C11_Witness ==
    /\ pc = "returned"
    /\ variant = "current_sweep_log"
    /\ HasHead(":SENS:VOLT:PROT") # {}
    /\ HasHead(":SOUR:CURR:STOP") # {}

(* What each well-formed :SYST:ERR? reply of the model stands for.         *)
ErrorMeaning ==
    Chars("15,\"overflow\"") :> <<15, "overflow">>
    @@ Chars("0,\"No error\"") :> <<0, "No error">>
    @@ Chars("-113,\"Undefined header, near :X\"")
          :> <<0 - 113, "Undefined header, near :X">>

(* The position (from 1) of the first code-0 answer of the instrument, all *)
(* answers up to it being well formed; 0 when there is none within reach.  *)
FirstZero ==
    LET zeros == {i \in 1..(Len(inst.queue) + 1) :
                    /\ \A j \in 1..i : Answer(j) \in DOMAIN ErrorMeaning
                    /\ ErrorMeaning[Answer(i)][1] = 0
                    /\ \A j \in 1..(i - 1) : ErrorMeaning[Answer(j)][1] # 0}
    IN  IF zeros = {} THEN 0 ELSE CHOOSE i \in zeros : TRUE

(* C12: for an error queue whose first code-0 entry is at position k (from *)
(* 0) the drain returns exactly the k entries before it in arrival order,  *)
(* never an entry with code 0, issues exactly k+1 :SYST:ERR? queries and   *)
(* leaves later entries unread; (15,"overflow"),(0,"No error") gives       *)
(* exactly [(15,"overflow")].                                              *)
C12_DrainStopsAtSentinel ==
    /\ (pc \in {"drain", "drained"} /\ FirstZero > 0) =>
          Len(commands) <= FirstZero
    /\ pc = "drained" =>
          LET k == FirstZero - 1
          IN  /\ FirstZero > 0
              /\ Len(commands) = k + 1
              /\ \A i \in DOMAIN commands :
                    commands[i] = Query(":SYST:ERR?")
              /\ errors = [i \in 1..k |-> ErrorMeaning[Answer(i)]]
              /\ \A i \in DOMAIN errors : errors[i][1] # 0
              /\ inst.next = k + 2
              /\ inst.queue = <<Chars("15,\"overflow\""),
                                Chars("0,\"No error\"")>> =>
                    errors = <<(<<15, "overflow">>)>>

C12_Witness ==
    /\ pc = "drained"
    /\ Len(inst.queue) = 2
    /\ Len(errors) = 1
    /\ Len(commands) = 2

(* An instrument that answers every :SYST:ERR? with a well-formed entry    *)
(* whose code is not 0.                                                    *)
AlwaysNonZero ==
    \A i \in 1..(Len(inst.queue) + 1) :
        /\ Answer(i) \in DOMAIN ErrorMeaning
        /\ ErrorMeaning[Answer(i)][1] # 0

(* C13: the drain returns if and only if the instrument eventually answers *)
(* :SYST:ERR? with code 0: a drain that returned was answered code 0 by    *)
(* its last query, a drain whose instrument has a code-0 answer ahead      *)
(* returns, and against an instrument that always answers a non-zero code  *)
(* it never returns and keeps querying, past the depth of the queue and    *)
(* up to whatever number of queries is explored.                           *)
C13_DrainReturnsIffZero ==
    /\ [](pc = "drained" => (FirstZero > 0 /\ Len(commands) = FirstZero))
    /\ ((pc = "drain" /\ FirstZero > 0) ~> (pc = "drained"))
    /\ []((pc = "drain" /\ AlwaysNonZero) => [](pc = "drain"))
    /\ ((pc = "drain" /\ AlwaysNonZero)
           ~> (Len(commands) = MaxQueue + 2 /\ Len(errors) = MaxQueue + 2))

C13_Witness ==
    /\ pc = "drain"
    /\ AlwaysNonZero
    /\ Len(commands) = MaxQueue + 2
    /\ Len(errors) > Len(inst.queue)

(* The readings of the model an arm count above 2500 shows as, and the     *)
(* integer each reading up to 2500 stands for.                             *)
ArmAbove == {Chars(t) : t \in {"2500.5", "2501", "9.9E37", "inf"}}
ArmReading ==
    Chars("0") :> 0 @@ Chars("1") :> 1 @@ Chars("100.000000") :> 100
    @@ Chars("2500") :> 2500

CallsOf(name) == {i \in DOMAIN calls : calls[i].name = name}

(* C14: get_arm_count returns -1 exactly when the reply is a value greater *)
(* than 2500 and otherwise the reply's integer value: 2500 reads back as   *)
(* 2500, a reply in 1..2500 is returned unchanged, and the result is never *)
(* greater than 2500.                                                      *)
C14_ArmCountSentinel ==
    \A i \in CallsOf("get_arm_count") :
        LET c == calls[i]
        IN  /\ c.reply \in ArmAbove => c.outcome = Returns(IntValue(0 - 1))
            /\ c.reply \in DOMAIN ArmReading =>
                  c.outcome = Returns(IntValue(ArmReading[c.reply]))
            /\ c.outcome.raised = "" =>
                  /\ c.outcome.value.t = "int"
                  /\ c.outcome.value.v <= 2500
                  /\ c.outcome.value.v = 0 - 1 <=> c.reply \in ArmAbove

C14_Witness ==
    /\ \E i \in CallsOf("get_arm_count") :
          /\ calls[i].reply = Chars("2500")
          /\ calls[i].outcome.value.v = 2500
    /\ \E i \in CallsOf("get_arm_count") :
          /\ calls[i].reply = Chars("2501")
          /\ calls[i].outcome.value.v = 0 - 1

(* x is the float num/den *)
FloatIs(x, num, den) ==
    /\ x.kind = "finite"
    /\ IF x.e >= 0 THEN x.sig * Pow10(x.e) * den = num
       ELSE x.sig * den = num * Pow10(0 - x.e)

DecodeOf(c) ==
    (CHOOSE g \in Getters : g.name = c.name /\ g.head = c.head).decode

IsNumeric(decode) == decode \in {"float", "int", "int_float", "arm_count"}

(* What the call gave back is what its own reply says. *)
Reflects(c) ==
    LET decode == DecodeOf(c)
    IN  /\ decode = "bool" =>
              /\ c.outcome.raised = ""
              /\ c.outcome.value.t = "bool"
              /\ c.outcome.value.v <=> c.reply = <<"1">>
        /\ decode = "str" => c.outcome = Returns(StrValue(c.reply))
        /\ decode = "values" => c.outcome = Returns(ListValue(c.reply))
        /\ (decode = "error" /\ c.reply \in DOMAIN ErrorMeaning) =>
              c.outcome = Returns([t |-> "tuple", v |-> ErrorMeaning[c.reply]])
        /\ (IsNumeric(decode) /\ c.reply = Chars("1")) =>
              /\ c.outcome.raised = ""
              /\ IF decode = "float" THEN FloatIs(c.outcome.value.v, 1, 1)
                 ELSE c.outcome.value = IntValue(1)
        /\ (IsNumeric(decode) /\ c.reply = Chars("2500")) =>
              /\ c.outcome.raised = ""
              /\ IF decode = "float" THEN FloatIs(c.outcome.value.v, 2500, 1)
                 ELSE c.outcome.value = IntValue(2500)
        /\ (decode = "float" /\ c.reply = Chars("-7.9")) =>
              FloatIs(c.outcome.value.v, 0 - 79, 10)

(* The commands of the i-th call follow those of the calls before it. *)
FirstOf(i) == IF i = 1 THEN 1 ELSE calls[i - 1].first + calls[i - 1].count

(* C15: every getter call of every controller (the tripped queries and     *)
(* read_error included) issues exactly one query and no write and returns  *)
(* the value decoded from its own reply; nothing is cached: n calls issue  *)
(* n queries and a changed reply shows in the next call.                   *)
C15_GetterQueriesOnce ==
    pc = "session" =>
        /\ \A i \in DOMAIN calls : calls[i].first = FirstOf(i)
        /\ Len(commands) = FirstOf(Len(calls) + 1) - 1
        /\ \A i \in DOMAIN calls :
              calls[i].kind = "get" =>
                  /\ calls[i].count = 1
                  /\ commands[calls[i].first] = Query(calls[i].head \o "?")
                  /\ Reflects(calls[i])

C15_Witness ==
    /\ Len(calls) = 2
    /\ calls[1].name = "is_current_compliance_tripped"
    /\ calls[2].name = "is_current_compliance_tripped"
    /\ calls[1].reply = <<"0">> /\ ~calls[1].outcome.value.v
    /\ calls[2].reply = <<"1">> /\ calls[2].outcome.value.v
    /\ Len(commands) = 2
    /\ \A i \in DOMAIN commands : commands[i].kind = "query"

(* The setters that take an enum token. *)
IsTokenSetter(c) ==
    /\ c.kind = "set"
    /\ \/ c.cls = "Source" /\ c.name = "set_function"
       \/ c.name \in {"set_voltage_mode", "set_current_mode",
                      "set_output_off_mode", "set_terminals",
                      "set_auto_zero", "set_guard", "set_arm_source",
                      "set_trigger_source", "set_feed", "set_control",
                      "set_timestamp_format"}

(* C16: every enum-token setter sends exactly one command carrying the     *)
(* caller's token verbatim, for tokens inside and outside the documented   *)
(* set alike: it never rejects a token, never raises, issues no query and  *)
(* returns no value.                                                       *)
C16_TokenForwardedVerbatim ==
    \A i \in DOMAIN calls :
        IsTokenSetter(calls[i]) =>
            /\ calls[i].count = 1
            /\ commands[calls[i].first].kind = "write"
            /\ Wire(commands[calls[i].first])
                  = calls[i].head \o " " \o calls[i].arg
            /\ calls[i].outcome.raised = ""
            /\ calls[i].outcome.value.t = "none"
            /\ Len(commands) >= calls[i].first
            /\ (i = Len(calls) /\ pc = "session") =>
                  Len(commands) = calls[i].first

C16_Witness ==
    /\ Len(calls) = 2
    /\ calls[1].name = "set_arm_source" /\ calls[1].arg = "BOGUS"
    /\ calls[2].name = "set_arm_source" /\ calls[2].arg = "TLIN"
    /\ Wire(commands[1]) = ":ARM:SOUR BOGUS"
    /\ Wire(commands[2]) = ":ARM:SOUR TLIN"

(* The enum settings that have a setter and a getter. *)
IsEnumSet(c) ==
    /\ c.kind = "set"
    /\ c.name \in {"set_function", "set_voltage_mode", "set_current_mode",
                   "set_output_off_mode", "set_terminals", "set_auto_zero",
                   "set_guard", "set_arm_source", "set_trigger_source",
                   "set_control", "set_timestamp_format"}

(* The token the caller passed: the token itself, or the one function of   *)
(* Measure.set_function.                                                   *)
TokenOf(c) == IF c.cls = "Measure" THEN c.arg[1] ELSE c.arg

(* The reply of an echoing transport: the argument text of the write. *)
EchoOf(c) == Chars(Join(commands[c.first].args))

(* C17: for every enum setting with a setter and a getter, set(X) followed *)
(* by get() returns X when the transport answers the query with the value  *)
(* last written for that setting.                                          *)
C17_EnumRoundTrip ==
    \A i \in 2..Len(calls) :
        ( /\ IsEnumSet(calls[i - 1])
          /\ calls[i - 1].cls = "Measure" => Len(calls[i - 1].arg) = 1
          /\ calls[i].kind = "get"
          /\ calls[i].reply = EchoOf(calls[i - 1]) ) =>
            /\ calls[i].outcome.raised = ""
            /\ Text(calls[i].outcome.value.v) = TokenOf(calls[i - 1])

IsBoolGetter(c) ==
    /\ c.kind = "get"
    /\ c.name \in {"is_output_on", "is_four_wire", "is_beeper_on",
                   "is_concurrent", "is_auto_delay",
                   "is_voltage_compliance_tripped",
                   "is_current_compliance_tripped",
                   "is_voltage_protection_tripped"}

IsBoolSetter(c) ==
    /\ c.kind = "set"
    /\ c.name \in {"set_four_wire", "set_beeper", "set_concurrent",
                   "set_auto_delay", "set_auto_range"}

(* C18: every boolean getter returns true exactly when the reply is the    *)
(* string "1" and false for every other reply ("0", "ON", an empty reply,  *)
(* garbage), never an error; every boolean setter writes ON for true and   *)
(* OFF for false.                                                          *)
C18_BooleanCodec ==
    \A i \in DOMAIN calls :
        LET c == calls[i]
        IN  /\ IsBoolGetter(c) =>
                  /\ c.outcome.raised = ""
                  /\ c.outcome.value.t = "bool"
                  /\ c.outcome.value.v <=> Text(c.reply) = "1"
                  /\ Text(c.reply) \in {"0", "ON", "", "1.0"} =>
                        ~c.outcome.value.v
            /\ IsBoolSetter(c) =>
                  /\ c.count = 1
                  /\ c.arg => Wire(commands[c.first]) = c.head \o " ON"
                  /\ ~c.arg => Wire(commands[c.first]) = c.head \o " OFF"
            /\ c.name = "set_filter" =>
                  /\ c.count = 3
                  /\ c.arg[1] => Wire(commands[c.first + 2]) = ":SENS:AVER ON"
                  /\ ~c.arg[1] =>
                        Wire(commands[c.first + 2]) = ":SENS:AVER OFF"

C18_Witness ==
    /\ Len(calls) = 2
    /\ calls[1].name = "set_beeper" /\ calls[1].arg
    /\ Wire(commands[1]) = ":SYST:BEEP:STAT ON"
    /\ calls[2].name = "is_beeper_on"
    /\ calls[2].reply = <<"O", "N">>
    /\ calls[2].outcome = Returns(BoolValue(FALSE))

IsIntGetter(c) ==
    /\ c.kind = "get"
    /\ c.name \in {"get_trigger_count", "get_arm_count", "get_size",
                   "get_count", "read_status_byte", "read_event_register",
                   "read_measurement_event", "read_operation_event",
                   "read_questionable_event"}

(* C19: every integer-valued getter (trigger count, arm count, buffer      *)
(* size, stored-sample count, status byte, event and status registers,     *)
(* error code) given a reply in float form such as "100.000000" returns    *)
(* the truncated integer instead of failing.                               *)
C19_IntGettersAcceptFloatForm ==
    \A i \in DOMAIN calls :
        LET c == calls[i]
        IN  /\ (IsIntGetter(c) /\ Text(c.reply) = "100.000000") =>
                  c.outcome = Returns(IntValue(100))
            /\ (c.name = "read_error"
                  /\ Text(c.reply) = "0.0,\"No error\"") =>
                  /\ c.outcome.raised = ""
                  /\ c.outcome.value.v[1] = 0

IsNumericGetter(c) ==
    /\ c.kind = "get"
    /\ c.name \in {"get_voltage", "get_current", "get_voltage_range",
                   "get_current_range", "get_delay",
                   "get_voltage_protection",
                   "get_voltage_compliance", "get_current_compliance",
                   "get_nplc", "get_trigger_delay", "get_arm_timer",
                   "self_test"}
       \/ IsIntGetter(c)

Malformed == {"", "VOLT"}

C21_SplitAtFirstComma ==
    \A i \in DOMAIN calls :
        LET c == calls[i]
            text == Text(c.reply)
        IN  c.name = "read_error" =>
              /\ text = "-113,\"Undefined header, near :X\"" =>
                    c.outcome =
                        Returns(ErrorEntry(0 - 113, "Undefined header, near :X"))
              /\ text = "15,\"overflow\"" =>
                    c.outcome = Returns(ErrorEntry(15, "overflow"))
              /\ text = "0,\"No error\"" =>
                    c.outcome = Returns(ErrorEntry(0, "No error"))
              /\ (\A k \in DOMAIN c.reply : c.reply[k] # ",") =>
                    /\ c.outcome.raised = "ValueError"
                    /\ c.outcome.value = None
              /\ c.outcome.raised = "" =>
                    \E k \in DOMAIN c.reply :
                        /\ c.reply[k] = ","
                        /\ \A j \in 1..(k - 1) : c.reply[j] # ","
                        /\ c.outcome.value.v[1] =
                              SignOf(c.reply)
                                * DigitsVal(Unsigned(SubSeq(c.reply, 1, k - 1)))

C21_Witness ==
    /\ Len(calls) = 2
    /\ calls[1].name = "read_error"
    /\ Text(calls[1].reply) = "-113,\"Undefined header, near :X\""
    /\ calls[1].outcome.value.v[2] = "Undefined header, near :X"
    /\ calls[2].name = "read_error"
    /\ Text(calls[2].reply) = "15"
    /\ calls[2].outcome = Raises("ValueError")

(* C22: no operation retries: when a send or query fails with a transport  *)
(* error, the failing command was handed to the transport once and is the  *)
(* last entry of the trace (the operation re-issues nothing), and the      *)
(* operation has ended with that error raised to its caller.               *)
(* A later close() of the facade is another operation: it adds its own    *)
(* :OUTP OFF and the closing of the session, never the failed command.     *)
C22_NoRetry ==
    error.type = "TransportError" =>
        /\ pc \in {"raised", "call_raised", "drain_raised", "close_raised",
                   "closed"}
        /\ pc # "closed" => error.at = Len(commands)
        /\ pc = "closed" =>
              SubSeq(commands, error.at + 1, Len(commands))
                  = <<Config_output_off, Close>>
        /\ pc \notin {"closed", "close_raised"} => result = <<>>

C22_Witness ==
    /\ pc = "drain_raised"
    /\ error = [type |-> "TransportError", at |-> 2]
    /\ Wire(commands[1]) = ":SYST:ERR?"
    /\ Wire(commands[2]) = ":SYST:ERR?"
    /\ Len(errors) = 1

ListHead == IF variant \in VoltageVariants THEN ":SOUR:LIST:VOLT"
            ELSE ":SOUR:LIST:CURR"
ModeHead == IF variant \in VoltageVariants THEN ":SOUR:VOLT:MODE"
            ELSE ":SOUR:CURR:MODE"

(* C23: a list sweep sends the mode LIST command before exactly one        *)
(* :SOUR:LIST command, whose elements are the caller's levels in the       *)
(* caller's order (nothing sorted, dropped or de-duplicated), sets the     *)
(* trigger count to the length of the list, and sends no START, STOP,      *)
(* STEP, spacing or point-count command.                                   *)
C23_ListSentVerbatim ==
    (variant \in ListVariants /\ OutpOnAt # {}) =>
        /\ Cardinality(HasHead(ListHead)) = 1
        /\ Cardinality(HasHead(ModeHead)) = 1
        /\ \A m \in HasHead(ModeHead), l \in HasHead(ListHead) :
              /\ commands[m].args = <<"LIST">>
              /\ m < l
              /\ commands[l].args =
                    <<Join([i \in DOMAIN args.levels |->
                               FormatE(args.levels[i])])>>
              /\ args.levels = <<3, 1>> =>
                    Wire(commands[l]) =
                        ListHead \o " 1.500000E+00,5.000000E-01"
              /\ args.levels = <<2, 2>> =>
                    Wire(commands[l]) =
                        ListHead \o " 1.000000E+00,1.000000E+00"
        /\ \E t \in HasHead(":TRIG:COUN") :
              /\ HasHead(":TRIG:COUN") = {t}
              /\ commands[t].args = <<ToString(Len(args.levels))>>
        /\ \A i \in DOMAIN commands :
              commands[i].head \notin
                  {":SOUR:VOLT:START", ":SOUR:VOLT:STOP", ":SOUR:VOLT:STEP",
                   ":SOUR:CURR:START", ":SOUR:CURR:STOP", ":SOUR:CURR:STEP",
                   ":SOUR:SWE:SPAC", ":SOUR:SWE:POIN"}

C23_Witness ==
    /\ variant = "voltage_sweep_list"
    /\ pc = "returned"
    /\ args.levels = <<3, 1>>
    /\ \E l \in DOMAIN commands :
          Wire(commands[l]) = ":SOUR:LIST:VOLT 1.500000E+00,5.000000E-01"
    /\ \E t \in DOMAIN commands : Wire(commands[t]) = ":TRIG:COUN 2"

SourceSide == IF variant \in VoltageVariants THEN ":SOUR:VOLT" ELSE ":SOUR:CURR"

(* C24: a logarithmic sweep writes start and stop but no step, sets mode   *)
(* SWE, range AUTO and spacing LOG, and then writes the caller's point     *)
(* count p unchanged in :SOUR:SWE:POIN p and in :TRIG:COUN p, the two      *)
(* values equal, for every p.                                              *)
C24_LogPointCountVerbatim ==
    (variant \in LogVariants /\ OutpOnAt # {}) =>
        /\ InRelativeOrder(
              << SourceSide \o ":START", SourceSide \o ":STOP",
                 SourceSide \o ":MODE SWE", ":SOUR:SWE:RANG AUTO",
                 ":SOUR:SWE:SPAC LOG",
                 ":SOUR:SWE:POIN " \o ToString(args.points),
                 ":TRIG:COUN " \o ToString(args.points) >>, commands)
        /\ HasHead(":SOUR:VOLT:STEP") \cup HasHead(":SOUR:CURR:STEP") = {}
        /\ Cardinality(HasHead(":SOUR:SWE:POIN")) = 1
        /\ Cardinality(HasHead(":TRIG:COUN")) = 1
        /\ \A p \in HasHead(":SOUR:SWE:POIN"), t \in HasHead(":TRIG:COUN") :
              commands[p].args = commands[t].args

C24_Witness ==
    /\ variant = "current_sweep_log"
    /\ pc = "returned"
    /\ args.points = 3
    /\ \E p \in DOMAIN commands : Wire(commands[p]) = ":SOUR:SWE:POIN 3"
    /\ \E t \in DOMAIN commands : Wire(commands[t]) = ":TRIG:COUN 3"
    /\ \E l \in DOMAIN commands : Wire(commands[l]) = ":SOUR:SWE:SPAC LOG"

CloseAt == {i \in DOMAIN commands : commands[i].kind = "close"}

(* C25: the facade's close(), called directly or on leaving the context    *)
(* manager after the body returned or raised, sends :OUTP OFF and then     *)
(* closes the transport, in that order and exactly once; no controller or  *)
(* sweep operation closes the transport: the session is closed only in a   *)
(* completed close().                                                      *)
C25_CloseAfterOutputOff ==
    /\ pc = "closed" =>
          LET n == Len(commands)
          IN  /\ n >= 2
              /\ Wire(commands[n - 1]) = ":OUTP OFF"
              /\ CloseAt = {n}
    /\ pc # "closed" => CloseAt = {}

C25_Witness ==
    /\ pc = "closed"
    /\ variant = "source_voltage"
    /\ error.type = "TransportError"
    /\ IsRead(commands[error.at])
    /\ Len(commands) = error.at + 2
    /\ IsOutpOff(commands[error.at + 1])
    /\ commands[error.at + 2] = Close

IsLifecycle(c) == c.head \in {":ABOR", ":INIT"}

(* C26: no sweep variant and no facade operation sends :ABOR or :INIT on   *)
(* any path, successful or failing; these commands are on the trace only   *)
(* from a call of Trigger.abort or Trigger.initiate, and each such call    *)
(* sends exactly that one command, issues no query and returns without     *)
(* waiting for completion.                                                 *)
C26_NoImplicitAbort ==
    /\ (InSweep \/ variant \in FacadeOps
          \/ pc \in {"drain", "drained", "drain_raised"}) =>
          \A i \in DOMAIN commands : ~IsLifecycle(commands[i])
    /\ \A i \in DOMAIN commands :
          IsLifecycle(commands[i]) =>
              \/ \E k \in DOMAIN calls :
                    /\ calls[k].cls = "Trigger"
                    /\ calls[k].name \in {"abort", "initiate"}
                    /\ calls[k].first = i
              \/ pc = "call_raised" /\ error.at = i
    /\ \A k \in DOMAIN calls :
          (calls[k].cls = "Trigger"
             /\ calls[k].name \in {"abort", "initiate"}) =>
              /\ calls[k].count = 1
              /\ commands[calls[k].first].kind = "write"
              /\ Wire(commands[calls[k].first]) =
                    (IF calls[k].name = "abort" THEN ":ABOR" ELSE ":INIT")
              /\ calls[k].outcome = Returns(None)
              /\ k < Len(calls) => calls[k + 1].first = calls[k].first + 1
              /\ (k = Len(calls) /\ pc = "session") =>
                    Len(commands) = calls[k].first

C26_Witness ==
    /\ pc = "session"
    /\ Len(calls) = 2
    /\ calls[1].name = "abort"
    /\ calls[2].name = "abort"
    /\ Len(commands) = 2
    /\ Wire(commands[1]) = ":ABOR"
    /\ Wire(commands[2]) = ":ABOR"

(* The documented range of the trigger count: 1 to 2500. *)
MaxTriggerCount == 2500
ValidCounts == {ToString(n) : n \in 1..MaxTriggerCount}

(* C27: the value carried by every :TRIG:COUN command a sweep sends lies   *)
(* in [1, 2500], for every input the sweep accepts, an empty level list    *)
(* and a logarithmic point count of 0 included.                            *)
C27_TriggerCountInRange ==
    InSweep =>
        \A t \in HasHead(":TRIG:COUN") :
            /\ Len(commands[t].args) = 1
            /\ commands[t].args[1] \in ValidCounts

SensedLimitHead ==
    IF variant \in VoltageVariants \cup {"source_voltage"}
    THEN ":SENS:CURR:PROT" ELSE ":SENS:VOLT:PROT"

(* C28: in every sweep variant and in the facade's source_voltage and      *)
(* source_current the compliance limit of the sensed quantity is sent      *)
(* before :OUTP ON: no trace has :OUTP ON without an earlier compliance    *)
(* command of the same operation.                                          *)
C28_ComplianceBeforeOutputOn ==
    (InSweep \/ variant \in FacadeOps) =>
        \A o \in OutpOnAt :
            \E c \in 1..(o - 1) :
                /\ commands[c].kind = "write"
                /\ Wire(commands[c]) = SensedLimitHead \o " 5.000000E-01"
                /\ args.compliance = 1

C28_Witness ==
    /\ variant = "source_current"
    /\ pc = "read"
    /\ Len(commands) = 6
    /\ Wire(commands[4]) = ":SENS:VOLT:PROT 5.000000E-01"
    /\ Wire(commands[6]) = ":OUTP ON"

(* C29: a linear sweep, voltage or current, called with step = 0 fails     *)
(* with an error before anything is sent: the command trace is unchanged   *)
(* by the call (no reset, no configuration, no :OUTP ON), the point count  *)
(* being computed before the first command.                                *)
C29_ZeroStepSendsNothing ==
    /\ (variant \in LinearVariants /\ args.step = 0) =>
          /\ pc = "raised"
          /\ error.type = "ZeroDivisionError"
          /\ commands = <<>>
          /\ result = <<>>
    /\ error.type = "ZeroDivisionError" =>
          variant \in LinearVariants /\ args.step = 0

C29_Witness ==
    /\ variant = "current_sweep_linear"
    /\ args.step = 0
    /\ args.start = 0 /\ args.stop = 2
    /\ pc = "raised"
    /\ commands = <<>>

(* C30: in the facade's source_voltage and source_current, whenever        *)
(* :OUTP ON has been sent, :OUTP OFF is sent after the :READ? attempt      *)
(* before the call finishes, whether the call returns the readings or      *)
(* :READ? fails with an error; on success the readings returned are        *)
(* exactly the :READ? reply.                                               *)
C30_FacadeOutputOffAfterRead ==
    (variant \in FacadeOps /\ pc \in {"returned", "raised"}) =>
        /\ \A i \in ReadAt : \E j \in OutpOffAt : j > i
        /\ pc = "returned" => result = raw

====
